---- MODULE Spec2Model ----
(***************************************************************************)
(* State-machine model of the "vector" directional fuzzer:                 *)
(*   - the knowledge store (ring of executions, write index, checkpoint),  *)
(*   - the explored graph and its embeddings with the two mutexes,         *)
(*   - the fuzzer worker threads (InitializationRun, Run, ExecOnce,        *)
(*     the mutator's graph calls) and the dashboard update thread.         *)
(* Embedding values are abstracted to the number of components of each     *)
(* embedding; the numeric result of the mutator is abstracted to "some     *)
(* input of the computed length".                                          *)
(***************************************************************************)
EXTENDS Integers, Sequences, FiniteSets, TLC

\* ------------------------------------------------------------------ bounds
MaxHistoryCount == 3
MaxExecutions == 3
CounterBits == 2
PipeCapacity == 1
U32Bits == 8

\* SHARED_TRACE_MAX_ADDRESSES, the number of offsets a region holds.
RegionCapacity == 2

\* Longest random walk followed (walk_length) and the number of Skip-gram
\* updates of one training followed.
MaxWalkLength == 3
MaxTrainSteps == 2

\* The value 1.0 of a loss or a similarity in fixed point.
LossScale == 1000

\* Most bytes of an input handed to the gradient step, and the value 1.0 of
\* an exploration speed or a gradient component in fixed point.
MaxInputDim == 2
SpeedScale == 2

\* acceleration * 0.1 in the unit of the exploration speeds of the loop, and
\* the number of accelerations that take a speed from -1.0 above 0.0.
PositiveStep == 1
ThawSteps == 11

\* Restarts of the fuzzer on one work directory that are followed.
MaxRestarts == 2

\* The calls of try-insert that reach the write, followed from the
\* construction of the store.
MaxInserts == 4

\* The weight 1.0 of a step of a walk in the unit of the weights, and the
\* number of values of a random draw from [0, 1) that are told apart.
WeightOne == 2
RandSteps == 4

\* The lock-guarded calls into the shared graph that one mutation makes.
GraphCalls == 2

\* The crashes followed and the seconds that pass meanwhile.
MaxCrashes == 3
MaxSeconds == 2

\* The largest octet, and the modulus of the wrap-around (std::fmod by 256.0).
MaxByte == 255
ByteModulus == 256

\* ------------------------------------------------------ program constants
EmbeddingDim == 4

\* ------------------------------------------------------------ value sets
WorkerIds == {0, 1}
TuiThread == 0 - 2
NoThread == 0 - 1
GarbageNodes == {9}
TargetTraces == {<< >>, <<1>>, <<1, 1>>, <<1, 2>>}
\* What one run of the target can leave behind: the trace in the shared
\* region and whether a signal ended the process.
TargetOutcomes ==
    {[trace |-> t, crashed |-> FALSE] : t \in TargetTraces}
        \cup {[trace |-> << >>, crashed |-> TRUE],
              [trace |-> <<1, 2>>, crashed |-> TRUE]}
Bytes == {0}
Slots == 0..(MaxHistoryCount - 1)
CounterModulus == 2 ^ CounterBits
U32Modulus == 2 ^ U32Bits

Max(a, b) == IF a >= b THEN a ELSE b
Min(a, b) == IF a <= b THEN a ELSE b

Inputs(n) == [1..n -> Bytes]

\* A default-constructed FuzzExecution: what every ring slot holds after
\* history.resize(max_history_count).
\* A SharedTrace region as shm_open/ftruncate leave it: all zero.
EmptyRegion ==
    [trace_count |-> 0, addresses |-> [i \in 1..RegionCapacity |-> 0]]

\* The client's state tf inside a child: the basic-block offsets collected
\* so far (tf.exec_trace), where the client stands, and the loop index i of
\* event_exit. "none" is a worker without a child.
NoTracer == [stage |-> "none", exec_trace |-> << >>, i |-> 0]

\* The block offsets (start_pc - app_start) a run of the target enters.
TracerTraces == {<< >>, <<1>>, <<2, 1>>, <<257, 2, 1>>}

\* No call of the loss or of the mutator is followed on its own.
NoCall == [op |-> "none"]

\* How a child ends: _exit/exit (WIFEXITED) or a fatal signal (WIFSIGNALED).
ChildEnds == {"exited", "signaled"}

EmptyExecution == [trace |-> << >>, input |-> << >>]

NoSnapshot == << >>

VARIABLES
    settings,               \* Settings: thread_count, input sizes, the target
    history,                \* FuzzerKnowledge::history, slot -> FuzzExecution
    history_index,          \* FuzzerKnowledge::history_index
    knowledge_mutex,        \* holder of FuzzerKnowledge::knowledge_mutex
    graph,                  \* ExploredGraph::graph, node -> neighbour list
    embeddings,             \* ExploredGraph::embeddings, node -> #components
    graph_mutex,            \* holder of ExploredGraph::graph_mutex
    checkpoint,             \* content of the knowledge checkpoint file
    g_should_stop_fuzzing,  \* the process-wide stop flag
    g_total_executions,     \* global execution counter
    g_crash_count,          \* global crash counter
    pc,                     \* position of every worker thread
    phase,                  \* "init"/"reinit" in InitializationRun, or "steady"
    input,                  \* the input handed to ExecOnce
    child,                  \* a worker's tracer+target process: none, running, or how it ended
    new_execution,          \* result of ExecOnce
    current_execution,      \* Run's current_execution
    forbidden_execution,    \* Run's forbidden_exec_resized
    history_snapshot,       \* Run's snapshot between lines 587 and 590
    mstep,                  \* which graph call of the mutator comes next
    error_message,          \* what() of the exception that ended a worker
    tui_pc,                 \* position of the dashboard update thread
    add_differs,            \* per worker: last try-insert found no equal trace
    add_result,             \* per worker: outcome of the last try-insert
    add_race,               \* per worker: that call overlapped one for the same new trace
    ever_added,             \* traces stored by try-insert so far
    current_source,         \* where current_execution came from
    shared_trace,           \* per worker: the SharedTrace region /topfuzz_trace_<id>
    tracer,                 \* per worker: the DBI client inside its child (tf)
    call                    \* a call of the loss or of the mutator: arguments, position, result

storeVars == <<history, history_index, checkpoint>>
graphVars == <<graph, embeddings>>
lockVars == <<knowledge_mutex, graph_mutex>>
globalVars == <<g_should_stop_fuzzing, g_total_executions, g_crash_count>>
localVars == <<input, child, new_execution, current_execution,
               forbidden_execution, history_snapshot, mstep>>
ctlVars == <<pc, phase, error_message>>
ghostVars == <<add_differs, add_result, add_race, ever_added, current_source>>
regionVars == <<shared_trace, tracer>>
unitVars == <<shared_trace, tracer, call>>

vars == <<settings, history, history_index, knowledge_mutex, graph, embeddings,
          graph_mutex, checkpoint, g_should_stop_fuzzing, g_total_executions,
          g_crash_count, pc, phase, input, child, new_execution,
          current_execution, forbidden_execution, history_snapshot, mstep,
          error_message, tui_pc, add_differs, add_result, add_race,
          ever_added, current_source, shared_trace, tracer, call>>

Workers == {w \in WorkerIds : w < settings.thread_count}

\* ------------------------------------------------------------ pure helpers

\* std::find(neighbors.begin(), neighbors.end(), n) != neighbors.end()
Contains(s, n) == \E k \in 1..Len(s) : s[k] = n

\* std::memcmp over size * sizeof(u32) bytes of two traces of equal size
MemcmpEqual(a, b) == \A k \in 1..Len(a) : a[k] = b[k]

\* The scan of AddExecutionIfDifferent: some non-empty slot has an equal trace.
HasEqualTrace(hist, trace) ==
    \E i \in DOMAIN hist :
        /\ hist[i].trace # << >>
        /\ Len(hist[i].trace) = Len(trace)
        /\ MemcmpEqual(hist[i].trace, trace)

\* Number of occupied slots as InitializationRun and Run count them.
CountExecutions(hist) ==
    Cardinality({i \in DOMAIN hist : hist[i].trace # << >>})

\* ExploredGraph::UpdateGraphFromTrace, position i onwards.
RECURSIVE AbsorbFrom(_, _, _, _)
AbsorbFrom(g, e, trace, i) ==
    IF i > Len(trace) THEN [graph |-> g, embeddings |-> e]
    ELSE LET node == trace[i]
             g1 == IF node \in DOMAIN g THEN g ELSE g @@ (node :> << >>)
             e1 == IF node \in DOMAIN e THEN e
                   ELSE e @@ (node :> EmbeddingDim)
             g2 == IF i + 1 <= Len(trace) /\ ~Contains(g1[node], trace[i + 1])
                   THEN [g1 EXCEPT ![node] = Append(@, trace[i + 1])]
                   ELSE g1
         IN AbsorbFrom(g2, e1, trace, i + 1)

\* An absorb that leaves out the edge of a node to itself.
UpdateGraphWithoutSelfLoops(g, e, trace) ==
    LET r == AbsorbFrom(g, e, trace, 1)
    IN [r EXCEPT !.graph =
           [n \in DOMAIN r.graph |->
               SelectSeq(r.graph[n], LAMBDA m : m # n)]]

\* ExploredGraph::UpdateGraphFromTrace: the whole trace.
UpdateGraphFromTrace(g, e, trace) == AbsorbFrom(g, e, trace, 1)

\* FuzzerThread constructor: clamp(min + step * thread_id, min, max), the sum
\* in unsigned arithmetic of U32Bits bits.
ThreadInputSize(tid) ==
    LET calculated == (settings.input_size.min
                        + settings.input_size.step * tid) % U32Modulus
    IN Max(settings.input_size.min, Min(calculated, settings.input_size.max))

\* An input left at the size it has.
UnresizedInputs(x, n) == {x}

\* std::vector::resize to n followed by the random fill of the new tail.
ResizedInputs(x, n) ==
    {y \in Inputs(n) : \A k \in 1..Min(Len(x), n) : y[k] = x[k]}

\* InitializationRun: number of bytes to mutate, 10% to 60% of the size,
\* at least one.
MutateCounts(n) ==
    {Max(1, (n * pct) \div 100) : pct \in 10..59}

\* InitializationRun: the candidates for the second input.
MutatedInputs(base) ==
    {y \in Inputs(Len(base)) :
        \E c \in MutateCounts(Len(base)) :
            Cardinality({k \in 1..Len(base) : y[k] # base[k]}) <= c}

\* The first occupied slot of a snapshot, as InitializationRun looks it up.
FirstOccupied(hist) ==
    CHOOSE i \in DOMAIN hist :
        /\ hist[i].trace # << >>
        /\ \A j \in DOMAIN hist : j < i => hist[j].trace = << >>

\* settings.max_history_count: the modulus of every index computation.
Capacity == settings.max_history_count

\* What hist[i] yields.  Inside the vector it is the slot.  Outside it,
\* operator[] reads memory past the end of the buffer, which is undefined:
\* the read faults ("segfault"), or the bytes there look like an empty
\* execution or like an execution with some trace and input.
OutOfRing ==
    {EmptyExecution} \cup {[trace |-> <<n>>, input |-> <<0>>] : n \in GarbageNodes}
ReadSlot(hist, i) ==
    IF i \in DOMAIN hist THEN {[kind |-> "slot", exec |-> hist[i]]}
    ELSE {[kind |-> "segfault", exec |-> EmptyExecution]}
             \cup {[kind |-> "slot", exec |-> x] : x \in OutOfRing}

\* Run: forward scan over max_history_count indices from a random start
\* index for an occupied slot; "none" when every slot read was empty.
RECURSIVE ScanFrom(_, _, _)
ScanFrom(hist, start, i) ==
    IF i = Capacity THEN {[kind |-> "none", exec |-> EmptyExecution]}
    ELSE LET reads == ReadSlot(hist, (start + i) % Capacity)
         IN {r \in reads : r.kind = "segfault" \/ r.exec.trace # << >>}
                \cup (IF \E r \in reads :
                            r.kind = "slot" /\ r.exec.trace = << >>
                      THEN ScanFrom(hist, start, i + 1) ELSE {})

\* ------------------------------------------------------------------- Init
FreshStore ==
    /\ history = [i \in Slots |-> EmptyExecution]
    /\ history_index = 0
    /\ knowledge_mutex = NoThread
    /\ graph = << >>
    /\ embeddings = << >>
    /\ graph_mutex = NoThread
    /\ checkpoint = "absent"

FreshThreads ==
    /\ g_should_stop_fuzzing = FALSE
    /\ g_total_executions = 0
    /\ g_crash_count = 0
    /\ pc = [w \in WorkerIds |->
                IF w < settings.thread_count THEN "IR_Loop" ELSE "Off"]
    /\ phase = [w \in WorkerIds |-> "init"]
    /\ input = [w \in WorkerIds |-> << >>]
    /\ child = [w \in WorkerIds |-> "none"]
    /\ new_execution = [w \in WorkerIds |-> EmptyExecution]
    /\ current_execution = [w \in WorkerIds |-> EmptyExecution]
    /\ forbidden_execution = [w \in WorkerIds |-> EmptyExecution]
    /\ history_snapshot = [w \in WorkerIds |-> NoSnapshot]
    /\ mstep = [w \in WorkerIds |-> 0]
    /\ error_message = [w \in WorkerIds |-> ""]
    /\ tui_pc = "T_Loop"
    /\ add_differs = [w \in WorkerIds |-> FALSE]
    /\ add_result = [w \in WorkerIds |-> "none"]
    /\ add_race = [w \in WorkerIds |-> FALSE]
    /\ ever_added = {}
    /\ current_source = [w \in WorkerIds |-> "none"]
    /\ shared_trace = [w \in WorkerIds |-> EmptyRegion]
    /\ tracer = [w \in WorkerIds |-> NoTracer]

\* Two workers of size T_0 = T_1 = 1 on a target that reads its standard
\* input and terminates.
Init ==
    /\ settings = [thread_count |-> 2,
                   max_history_count |-> MaxHistoryCount,
                   input_size |-> [min |-> 1, max |-> 1, step |-> 1],
                   target |-> [reads |-> TRUE, hangs |-> FALSE]]
    /\ FreshStore
    /\ FreshThreads
    /\ call = NoCall

\* One worker whose inputs are one byte longer than the pipe buffer, on any
\* target: one that may leave its standard input unread, and one that may
\* never terminate on its own.
LiveInit ==
    /\ settings \in {[thread_count |-> 1,
                      max_history_count |-> MaxHistoryCount,
                      input_size |-> [min |-> PipeCapacity + 1,
                                     max |-> PipeCapacity + 1, step |-> 1],
                      target |-> [reads |-> r, hangs |-> h]] :
                          r \in BOOLEAN, h \in BOOLEAN}
    /\ FreshStore
    /\ FreshThreads
    /\ call = NoCall

\* The executions an earlier run has stored, in the order it stored them.
StoredBefore ==
    <<[trace |-> <<2>>, input |-> <<0>>],
      [trace |-> <<2, 1>>, input |-> <<0>>]>>

\* The ring a checkpoint holds: written by a run whose max_history_count
\* was n, after it had stored k executions.
LoadedRing(n, k) ==
    [i \in 0..(n - 1) |-> IF i < k THEN StoredBefore[i + 1]
                          ELSE EmptyExecution]

\* main, lines 82-105: the store is fresh, or DeserializeKnowledge succeeds
\* on the checkpoint of an earlier run of the same target and main copies
\* its history, history_index and graph into a store constructed with the
\* current settings.  The earlier run's max_history_count is one less, the
\* same or one more than the current one.  The graph is the one its last
\* stored trace leaves, every stored trace being a prefix of it.
LoadedStore ==
    \E n \in (MaxHistoryCount - 1)..(MaxHistoryCount + 1) :
        \E k \in 1..Min(n, Len(StoredBefore)) :
            /\ history = LoadedRing(n, k)
            /\ history_index = k % n
            /\ LET r == AbsorbFrom(<< >>, << >>, StoredBefore[k].trace, 1)
               IN /\ graph = r.graph
                  /\ embeddings = r.embeddings
            /\ knowledge_mutex = NoThread
            /\ graph_mutex = NoThread
            /\ checkpoint = "written"

\* Executions stored by workers of an earlier run whose sizes were 1 and 3.
StoredBySizes ==
    <<[trace |-> <<2>>, input |-> <<0>>],
      [trace |-> <<2, 1>>, input |-> <<0, 0, 0>>]>>

\* main, lines 82-105, on the checkpoint of an earlier run with the same
\* max_history_count that had stored the first k of these executions.
SizedStore ==
    \E k \in 1..Len(StoredBySizes) :
        /\ history = [i \in Slots |-> IF i < k THEN StoredBySizes[i + 1]
                                      ELSE EmptyExecution]
        /\ history_index = k % MaxHistoryCount
        /\ LET r == AbsorbFrom(<< >>, << >>, StoredBySizes[k].trace, 1)
           IN /\ graph = r.graph
              /\ embeddings = r.embeddings
        /\ knowledge_mutex = NoThread
        /\ graph_mutex = NoThread
        /\ checkpoint = "written"

\* One worker of size T_0 = 2, over a fresh store or over that of the
\* earlier run.
SizeInit ==
    /\ settings = [thread_count |-> 1,
                   max_history_count |-> MaxHistoryCount,
                   input_size |-> [min |-> 2, max |-> 2, step |-> 1],
                   target |-> [reads |-> TRUE, hangs |-> FALSE]]
    /\ (FreshStore \/ SizedStore)
    /\ FreshThreads
    /\ call = NoCall

LoadInit ==
    /\ settings = [thread_count |-> 1,
                   max_history_count |-> MaxHistoryCount,
                   input_size |-> [min |-> 1, max |-> 1, step |-> 1],
                   target |-> [reads |-> TRUE, hangs |-> FALSE]]
    /\ (FreshStore \/ LoadedStore)
    /\ FreshThreads
    /\ call = NoCall

\* ------------------------------------------------- fragments of the actions

\* Leaving Run or InitializationRun destroys their locals.
Unwind(w) ==
    /\ input' = [input EXCEPT ![w] = << >>]
    /\ new_execution' = [new_execution EXCEPT ![w] = EmptyExecution]
    /\ current_execution' = [current_execution EXCEPT ![w] = EmptyExecution]
    /\ forbidden_execution' =
           [forbidden_execution EXCEPT ![w] = EmptyExecution]
    /\ history_snapshot' = [history_snapshot EXCEPT ![w] = NoSnapshot]
    /\ mstep' = [mstep EXCEPT ![w] = 0]

\* An exception unwinds to the catch block of the thread lambda (status
\* "Error"); lock_guards are released by the callers below.
Throw(w, msg) ==
    /\ pc' = [pc EXCEPT ![w] = "Error"]
    /\ error_message' = [error_message EXCEPT ![w] = msg]
    /\ Unwind(w)

\* A fatal signal to the fuzzer itself (a fault on an access outside the ring,
\* SIGPIPE) ends the process, and with it every thread where it stands.
Segfault ==
    pc' = [v \in WorkerIds |-> IF pc[v] = "Off" THEN "Off" ELSE "Killed"]

\* Run returns: the thread lambda sets the status "Stopped".
Return(w) ==
    /\ pc' = [pc EXCEPT ![w] = "Done"]
    /\ Unwind(w)

workerLocals == <<input, new_execution, current_execution,
                  forbidden_execution, history_snapshot, mstep>>

\* Count the execution and go round the loop: InitializationRun's tail,
\* or Run's tail (current_execution = new_execution).
NextIteration(w) ==
    /\ g_total_executions' = (g_total_executions + 1) % CounterModulus
    /\ new_execution' = [new_execution EXCEPT ![w] = EmptyExecution]
    /\ input' = [input EXCEPT ![w] = << >>]
    /\ IF phase[w] = "steady"
       THEN /\ pc' = [pc EXCEPT ![w] = "Loop_Top"]
            /\ current_execution' =
                   [current_execution EXCEPT ![w] = new_execution[w]]
            /\ current_source' = [current_source EXCEPT ![w] = "exec"]
       ELSE /\ pc' = [pc EXCEPT ![w] = "IR_Loop"]
            /\ UNCHANGED <<current_execution, current_source>>
    /\ UNCHANGED <<forbidden_execution, history_snapshot, mstep>>

\* The record of the last try-insert is dropped at the worker's next step.
ForgetAdd(w) ==
    /\ add_differs' = [add_differs EXCEPT ![w] = FALSE]
    /\ add_result' = [add_result EXCEPT ![w] = "none"]
    /\ add_race' = [add_race EXCEPT ![w] = FALSE]

\* UpdateEmbeddings takes no lock, and its walks call graph[curr_node] on the
\* std::unordered_map (graph.cc lines 59, 74, 86, 98 and 156): operator[]
\* looks the key up and creates it when the lookup misses.  When it overlaps
\* UpdateGraphFromTrace the two threads read and relink the same hash table
\* unordered, which is undefined behaviour.  old is the adjacency before the
\* absorb and new the one the absorb leaves behind when nothing interferes;
\* the outcomes are new itself, new with a key created from a node id read
\* from an adjacency list in mid-update, and new without one of its keys:
\* of two unordered insertions into one bucket chain only one survives, and
\* a lookup that misses while the absorb rehashes links a second, empty
\* node for a key, which can shadow or unlink the one that was there.
RacyGraphs(old, new) ==
    {new}
        \cup {new @@ (n :> << >>) : n \in GarbageNodes \ DOMAIN new}
        \cup {[k \in DOMAIN new \ {n} |-> new[k]] : n \in DOMAIN new}

\* The keys the walks of UpdateEmbeddings can create: graph[curr_node] and
\* graph[prev_node] (graph.cc lines 98 and 156) are operator[] on nodes taken
\* from adjacency lists, which inserts an empty list for a node that is not
\* a key; which of them a random walk visits is open.
MissingNeighbours(g) ==
    {n \in UNION {{g[k][j] : j \in 1..Len(g[k])} : k \in DOMAIN g} :
        n \notin DOMAIN g}

\* The adjacency maps UpdateEmbeddings can leave behind.
TrainedGraphs(g) ==
    {[n \in DOMAIN g \cup S |-> IF n \in DOMAIN g THEN g[n] ELSE << >>] :
        S \in SUBSET MissingNeighbours(g)}

TrainingThreads ==
    {w \in Workers : pc[w] \in {"AE_UE_In", "Mut_UE_In"}}

\* ---------------------------------------------------- InitializationRun

\* One pass of the while (true) loop up to the call of ExecOnce: leave when
\* the snapshot holds two executions, else pick the input.
InitializationRun(w) ==
    /\ pc[w] = "IR_Loop"
    /\ knowledge_mutex = NoThread
    /\ IF CountExecutions(history) >= 2
       THEN /\ pc' = [pc EXCEPT ![w] =
                        IF phase[w] = "init" THEN "Run_Begin"
                        ELSE "Run_Latest1"]
            /\ phase' = [phase EXCEPT ![w] = "steady"]
            /\ UNCHANGED input
       ELSE /\ \E x \in (IF CountExecutions(history) = 0
                         THEN Inputs(ThreadInputSize(w))
                         ELSE UNION {MutatedInputs(b) : b \in
                                ResizedInputs(
                                  history[FirstOccupied(history)].input,
                                  ThreadInputSize(w))}) :
                  input' = [input EXCEPT ![w] = x]
            /\ pc' = [pc EXCEPT ![w] = "EO_Fork"]
            /\ UNCHANGED phase
    /\ ForgetAdd(w)
    /\ UNCHANGED <<settings, unitVars, storeVars, graphVars, lockVars,
                   globalVars,
                   error_message, child, new_execution, current_execution,
                   forbidden_execution, history_snapshot, mstep, tui_pc,
                   ever_added, current_source>>

\* ------------------------------------------------------------- ExecOnce

\* Entry check, pipe() and fork().
ExecFork(w) ==
    /\ pc[w] = "EO_Fork"
    /\ IF input[w] = << >>
       THEN /\ Throw(w, "ExecOnce: input cannot be empty")
            /\ UNCHANGED child
       ELSE /\ child' = [child EXCEPT ![w] = "running"]
            /\ pc' = [pc EXCEPT ![w] = "EO_Write"]
            /\ UNCHANGED <<error_message, workerLocals>>
    /\ UNCHANGED <<settings, unitVars, storeVars, graphVars, lockVars,
                   globalVars,
                   phase, tui_pc, ghostVars>>

ExecForkFails(w) ==
    /\ pc[w] = "EO_Fork"
    /\ input[w] # << >>
    /\ Throw(w, "ExecOnce: fork failed")
    /\ UNCHANGED <<settings, unitVars, storeVars, graphVars, lockVars,
                   globalVars,
                   phase, child, tui_pc, ghostVars>>

\* The tracer+target process ends on its own (exit or fatal signal).
ChildExit(w) ==
    /\ child[w] = "running"
    /\ ~settings.target.hangs
    /\ \E how \in ChildEnds : child' = [child EXCEPT ![w] = how]
    /\ UNCHANGED <<settings, unitVars, storeVars, graphVars, lockVars,
                   globalVars,
                   ctlVars, input, new_execution, current_execution,
                   forbidden_execution, history_snapshot, mstep, tui_pc,
                   ghostVars>>

\* write(pipe_fds[1], input) on a blocking pipe whose read end only the
\* child holds: it returns once the bytes fit the pipe buffer or the child
\* reads them, and falls short once the child is gone (the child is then
\* reaped before the throw). A write that finds no reader at all raises
\* SIGPIPE, which no handler catches: the process ends.
ExecWrite(w) ==
    /\ pc[w] = "EO_Write"
    /\ \/ /\ child[w] = "running"
          /\ Len(input[w]) <= PipeCapacity \/ settings.target.reads
          /\ pc' = [pc EXCEPT ![w] = "EO_Wait"]
          /\ UNCHANGED <<child, error_message, workerLocals>>
       \/ /\ child[w] \in ChildEnds
          /\ child' = [child EXCEPT ![w] = "none"]
          /\ Throw(w, "ExecOnce: failed to write all input to pipe")
       \/ /\ child[w] \in ChildEnds
          /\ Segfault
          /\ UNCHANGED <<child, error_message, workerLocals>>
    /\ UNCHANGED <<settings, unitVars, storeVars, graphVars, lockVars,
                   globalVars,
                   phase, tui_pc, ghostVars>>

\* waitpid(pid, &status, 0) and the copy of the trace out of shared memory:
\* the trace the child left there, and whether a signal ended it.
ExecWait(w) ==
    /\ pc[w] = "EO_Wait"
    /\ child[w] \in ChildEnds
    /\ \E o \in TargetOutcomes :
          /\ o.crashed = (child[w] = "signaled")
          /\ new_execution' = [new_execution EXCEPT ![w] =
                 [trace |-> o.trace, input |-> input[w]]]
          /\ pc' = [pc EXCEPT ![w] =
                 IF o.crashed THEN "CR_LockK" ELSE "Post_Crash"]
    /\ child' = [child EXCEPT ![w] = "none"]
    /\ UNCHANGED <<settings, unitVars, storeVars, graphVars, lockVars,
                   globalVars,
                   phase, error_message, input, current_execution,
                   forbidden_execution, history_snapshot, mstep, tui_pc,
                   ghostVars>>

\* ------------------------------------------------------- the crash path

\* std::lock_guard<std::mutex> lock(knowledge.knowledge_mutex)
CrashLockKnowledge(w) ==
    /\ pc[w] = "CR_LockK"
    /\ knowledge_mutex = NoThread
    /\ knowledge_mutex' = w
    /\ pc' = [pc EXCEPT ![w] = "CR_LockG"]
    /\ UNCHANGED <<settings, unitVars, storeVars, graphVars, graph_mutex, globalVars,
                   phase, error_message, localVars, tui_pc, ghostVars>>

\* knowledge.graph.CopyGraphData(...) takes graph_mutex.
CrashCopyBegin(w) ==
    /\ pc[w] = "CR_LockG"
    /\ graph_mutex = NoThread
    /\ graph_mutex' = w
    /\ pc' = [pc EXCEPT ![w] = "CR_Copy"]
    /\ UNCHANGED <<settings, unitVars, storeVars, graphVars, knowledge_mutex,
                   globalVars, phase, error_message, localVars, tui_pc,
                   ghostVars>>

\* End of CopyGraphData, then SerializeCrash inside try/catch: the crash
\* counter moves only when the artifact was written.
CrashCopyEnd(w) ==
    /\ pc[w] = "CR_Copy"
    /\ graph_mutex' = NoThread
    /\ knowledge_mutex' = NoThread
    /\ \E ok \in BOOLEAN :
          g_crash_count' = IF ok THEN (g_crash_count + 1) % CounterModulus
                           ELSE g_crash_count
    /\ pc' = [pc EXCEPT ![w] = "Post_Crash"]
    /\ UNCHANGED <<settings, unitVars, storeVars, graphVars, g_should_stop_fuzzing,
                   g_total_executions, phase, error_message, localVars,
                   tui_pc, ghostVars>>

\* After the crash handling: Run polls the stop flag; both loops skip an
\* empty trace and otherwise call AddExecutionIfDifferent.
PostExecution(w) ==
    /\ pc[w] = "Post_Crash"
    /\ IF phase[w] = "steady" /\ g_should_stop_fuzzing
       THEN /\ Return(w)
            /\ UNCHANGED <<g_total_executions, current_source>>
       ELSE IF new_execution[w].trace # << >>
       THEN /\ pc' = [pc EXCEPT ![w] = "AE_Enter"]
            /\ UNCHANGED <<g_total_executions, workerLocals,
                           current_source>>
       ELSE NextIteration(w)
    /\ UNCHANGED <<settings, unitVars, storeVars, graphVars, lockVars,
                   g_should_stop_fuzzing, g_crash_count, phase,
                   error_message, child, tui_pc, add_differs, add_result,
                   add_race, ever_added>>

\* ------------------------------------------------ AddExecutionIfDifferent

\* A write that keeps the trace and loses the input.
StoreTraceOnly(hist, idx, e) ==
    [hist EXCEPT ![idx] = [trace |-> e.trace, input |-> << >>]]

\* history[history_index] = execution
StoreExecution(hist, idx, e) == [hist EXCEPT ![idx] = e]

\* "Differs from the trace of every occupied slot", as the contract words it.
DiffersFromAll(hist, trace) ==
    \A i \in DOMAIN hist : hist[i].trace # << >> => hist[i].trace # trace

\* The other workers that have called try-insert with the same trace and
\* have not passed the lock yet.
Rivals(w) ==
    {v \in Workers \ {w} :
        pc[v] = "AE_Enter" /\ new_execution[v].trace = new_execution[w].trace}

\* A check of the trace alone.
ContractErrorTraceOnly(e) ==
    IF e.trace = << >>
    THEN "Cannot add execution with empty trace to knowledge"
    ELSE ""

\* Lines 19-25: the std::logic_error the entry checks throw for an
\* execution, "" when they pass.
ContractError(e) ==
    IF e.trace = << >>
    THEN "Cannot add execution with empty trace to knowledge"
    ELSE IF e.input = << >>
    THEN "Cannot add execution with empty input to knowledge"
    ELSE ""

\* Entry checks, lock, duplicate scan and the write into the ring.
AddEnter(w) ==
    /\ pc[w] = "AE_Enter"
    /\ IF ContractError(new_execution[w]) # ""
       THEN /\ Throw(w, ContractError(new_execution[w]))
            /\ add_result' = [add_result EXCEPT ![w] = "threw"]
            /\ UNCHANGED <<history, history_index, knowledge_mutex,
                           g_total_executions, current_source, add_differs,
                           add_race, ever_added>>
       ELSE /\ knowledge_mutex = NoThread
            /\ add_differs' = [add_differs EXCEPT ![w] =
                   DiffersFromAll(history, new_execution[w].trace)]
            /\ IF HasEqualTrace(history, new_execution[w].trace)
               THEN /\ add_result' = [add_result EXCEPT ![w] = "not_added"]
                    /\ NextIteration(w)
                    /\ UNCHANGED <<history, history_index, knowledge_mutex,
                                   error_message, add_race, ever_added>>
               ELSE \E fault \in (IF history_index \in DOMAIN history
                                  THEN {FALSE} ELSE BOOLEAN) :
                    IF fault
                    THEN /\ Segfault
                         /\ add_result' = [add_result EXCEPT ![w] = "killed"]
                         /\ UNCHANGED <<history, history_index,
                                        knowledge_mutex, g_total_executions,
                                        workerLocals, current_source,
                                        error_message, add_race, ever_added>>
                    ELSE /\ history' =
                                IF history_index \in DOMAIN history
                                THEN StoreExecution(history, history_index,
                                                    new_execution[w])
                                ELSE history
                         /\ history_index' = (history_index + 1) % Capacity
                         /\ knowledge_mutex' = w
                         /\ ever_added' =
                                ever_added \cup {new_execution[w].trace}
                         /\ add_result' =
                                [add_result EXCEPT ![w] = "pending"]
                         /\ add_race' = [v \in WorkerIds |->
                                IF Rivals(w) # {} /\ v \in Rivals(w) \cup {w}
                                THEN TRUE ELSE add_race[v]]
                         /\ pc' = [pc EXCEPT ![w] = "AE_UGT"]
                         /\ UNCHANGED <<g_total_executions, workerLocals,
                                        current_source, error_message>>
    /\ UNCHANGED <<settings, unitVars, checkpoint, graphVars, graph_mutex,
                   g_should_stop_fuzzing, g_crash_count, phase, child,
                   tui_pc>>

\* graph.UpdateGraphFromTrace(execution.trace) under its lock_guard on
\* graph_mutex, then the entry into graph.UpdateEmbeddings(), which takes
\* no lock of its own.
AddAbsorb(w) ==
    /\ pc[w] = "AE_UGT"
    /\ graph_mutex = NoThread
    /\ LET r == UpdateGraphFromTrace(graph, embeddings,
                                     new_execution[w].trace)
       IN /\ graph' \in (IF TrainingThreads = {} THEN {r.graph}
                         ELSE RacyGraphs(graph, r.graph))
          /\ embeddings' = r.embeddings
    /\ pc' = [pc EXCEPT ![w] = "AE_UE_In"]
    /\ UNCHANGED <<settings, unitVars, storeVars, lockVars, globalVars, phase,
                   error_message, localVars, tui_pc, ghostVars>>

\* The end of UpdateEmbeddings, then SerializeKnowledge(*this,
\* checkpoint_filepath) and the return: the file is written, or it cannot
\* be opened, or the write falls short.
AddCheckpoint(w) ==
    /\ pc[w] = "AE_UE_In"
    /\ knowledge_mutex' = NoThread
    /\ graph' \in TrainedGraphs(graph)
    /\ \/ /\ checkpoint' = "written"
          /\ add_result' = [add_result EXCEPT ![w] = "added"]
          /\ NextIteration(w)
          /\ UNCHANGED error_message
       \/ /\ UNCHANGED checkpoint
          /\ add_result' = [add_result EXCEPT ![w] = "threw"]
          /\ Throw(w, "SerializeKnowledge: failed to open file for writing")
          /\ UNCHANGED <<g_total_executions, current_source>>
       \/ /\ checkpoint' = "truncated"
          /\ add_result' = [add_result EXCEPT ![w] = "threw"]
          /\ Throw(w, "SerializeKnowledge: failed to write data to file")
          /\ UNCHANGED <<g_total_executions, current_source>>
    /\ UNCHANGED <<settings, unitVars, history, history_index, embeddings,
                   graph_mutex, g_should_stop_fuzzing, g_crash_count, phase,
                   child, tui_pc, add_differs, add_race, ever_added>>

\* ------------------------------------------------------------------- Run

\* Lines 565-582: count the occupied slots of a snapshot; below two,
\* InitializationRun is called again.
RunBegin(w) ==
    /\ pc[w] = "Run_Begin"
    /\ knowledge_mutex = NoThread
    /\ IF CountExecutions(history) < 2
       THEN /\ pc' = [pc EXCEPT ![w] = "IR_Loop"]
            /\ phase' = [phase EXCEPT ![w] = "reinit"]
       ELSE /\ pc' = [pc EXCEPT ![w] = "Run_Latest1"]
            /\ UNCHANGED phase
    /\ UNCHANGED <<settings, unitVars, storeVars, graphVars, lockVars,
                   globalVars,
                   error_message, localVars, tui_pc, ghostVars>>

\* Line 587: history_snapshot = knowledge.GetHistorySnapshot().
RunSnapshot(w) ==
    /\ pc[w] = "Run_Latest1"
    /\ knowledge_mutex = NoThread
    /\ history_snapshot' = [history_snapshot EXCEPT ![w] = history]
    /\ pc' = [pc EXCEPT ![w] = "Run_Latest2"]
    /\ UNCHANGED <<settings, unitVars, storeVars, graphVars, lockVars,
                   globalVars,
                   phase, error_message, input, child, new_execution,
                   current_execution, forbidden_execution, mstep, tui_pc,
                   ghostVars>>

\* latest_idx = (history_idx + max_history_count - 1) % max_history_count
LatestIndex(idx) == (idx + Capacity - 1) % Capacity

\* Lines 588-609: history_idx = knowledge.GetHistoryIndex(); the slot before
\* it in the snapshot becomes current_execution, its input resized.
RunLatest(w) ==
    /\ pc[w] = "Run_Latest2"
    /\ knowledge_mutex = NoThread
    /\ \E r \in ReadSlot(history_snapshot[w], LatestIndex(history_index)) :
          IF r.kind = "segfault"
          THEN /\ Segfault
               /\ UNCHANGED <<current_execution, current_source,
                              history_snapshot>>
          ELSE /\ \E x \in ResizedInputs(r.exec.input, ThreadInputSize(w)) :
                     current_execution' = [current_execution EXCEPT ![w] =
                         [trace |-> r.exec.trace, input |-> x]]
               /\ current_source' =
                      [current_source EXCEPT ![w] = "snapshot"]
               /\ history_snapshot' =
                      [history_snapshot EXCEPT ![w] = NoSnapshot]
               /\ pc' = [pc EXCEPT ![w] = "Loop_Top"]
    /\ UNCHANGED <<settings, unitVars, storeVars, graphVars, lockVars,
                   globalVars,
                   phase, error_message, input, child, new_execution,
                   forbidden_execution, mstep, tui_pc, add_differs,
                   add_result, add_race, ever_added>>

\* Lines 619-623: the stop flag ends the loop.
LoopStop(w) ==
    /\ pc[w] = "Loop_Top"
    /\ g_should_stop_fuzzing
    /\ Return(w)
    /\ ForgetAdd(w)
    /\ UNCHANGED <<settings, unitVars, storeVars, graphVars, lockVars,
                   globalVars,
                   phase, error_message, child, tui_pc, ever_added,
                   current_source>>

\* Lines 624-672: pick the forbidden execution from a fresh snapshot and
\* bring both inputs to the thread's size.
LoopTop(w) ==
    /\ pc[w] = "Loop_Top"
    /\ ~g_should_stop_fuzzing
    /\ knowledge_mutex = NoThread
    /\ \E start \in 0..(Capacity - 1) :
        \E r \in ScanFrom(history, start, 0) :
          IF r.kind = "none"
          THEN Throw(w, "Run: no forbidden execution found in history")
          ELSE IF r.kind = "segfault"
          THEN /\ Segfault
               /\ UNCHANGED <<error_message, workerLocals>>
          ELSE LET f == r.exec
               IN /\ \E fx \in ResizedInputs(f.input, ThreadInputSize(w)) :
                        forbidden_execution' =
                            [forbidden_execution EXCEPT ![w] =
                                [trace |-> f.trace, input |-> fx]]
                  /\ \E cx \in ResizedInputs(current_execution[w].input,
                                            ThreadInputSize(w)) :
                        current_execution' =
                            [current_execution EXCEPT ![w].input = cx]
                  /\ pc' = [pc EXCEPT ![w] = "Mut_Loss"]
                  /\ UNCHANGED <<error_message, input, new_execution,
                                 history_snapshot, mstep>>
    /\ ForgetAdd(w)
    /\ UNCHANGED <<settings, unitVars, storeVars, graphVars, lockVars,
                   globalVars,
                   phase, child, tui_pc, ever_added, current_source>>

\* --------------------------------- GenerateNewInputWithGradientDescent
\* None of the graph calls below is made under knowledge_mutex.

\* The two UpdateGraphFromTrace calls of EmbeddingLoss or of
\* ComputeBehavioralGradient, each under its lock_guard on graph_mutex.
AbsorbBoth(g, e, first, second) ==
    LET r == UpdateGraphFromTrace(g, e, first)
    IN UpdateGraphFromTrace(r.graph, r.embeddings, second)

\* EmbeddingLoss, lines 32-47: both traces must be non-empty; absorb the
\* walk and the forbidden walk, then enter UpdateEmbeddings (no lock).
MutatorLoss(w) ==
    /\ pc[w] = "Mut_Loss"
    /\ IF current_execution[w].trace = << >>
       THEN /\ Throw(w, "EmbeddingLoss: walk trace cannot be empty")
            /\ UNCHANGED graphVars
       ELSE IF forbidden_execution[w].trace = << >>
       THEN /\ Throw(w, "EmbeddingLoss: forbidden_walk trace cannot be empty")
            /\ UNCHANGED graphVars
       ELSE /\ graph_mutex = NoThread
            /\ LET r == AbsorbBoth(graph, embeddings,
                                   current_execution[w].trace,
                                   forbidden_execution[w].trace)
               IN /\ graph' \in (IF TrainingThreads = {} THEN {r.graph}
                                 ELSE RacyGraphs(graph, r.graph))
                  /\ embeddings' = r.embeddings
            /\ pc' = [pc EXCEPT ![w] = "Mut_UE_In"]
            /\ mstep' = [mstep EXCEPT ![w] = 1]
            /\ UNCHANGED <<error_message, input, new_execution,
                           current_execution, forbidden_execution,
                           history_snapshot>>
    /\ UNCHANGED <<settings, unitVars, storeVars, lockVars, globalVars, phase, child,
                   tui_pc, ghostVars>>

\* EmbeddingLoss, lines 47-60: the end of UpdateEmbeddings and the two
\* MeanEmbedding reads under graph_mutex; ComputeLossGradientWithTrace then
\* reads the node embeddings under graph_mutex.
MutatorLossEnd(w) ==
    /\ pc[w] = "Mut_UE_In"
    /\ mstep[w] = 1
    /\ graph_mutex = NoThread
    /\ graph' \in TrainedGraphs(graph)
    /\ pc' = [pc EXCEPT ![w] = "Mut_Grad"]
    /\ UNCHANGED <<settings, unitVars, storeVars, embeddings, lockVars,
                   globalVars, phase, error_message, localVars, tui_pc,
                   ghostVars>>

\* ComputeBehavioralGradient, lines 59-75: absorb the forbidden trace and
\* the current trace, then enter UpdateEmbeddings (no lock).
MutatorGradient(w) ==
    /\ pc[w] = "Mut_Grad"
    /\ graph_mutex = NoThread
    /\ LET r == AbsorbBoth(graph, embeddings, forbidden_execution[w].trace,
                           current_execution[w].trace)
       IN /\ graph' \in (IF TrainingThreads = {} THEN {r.graph}
                         ELSE RacyGraphs(graph, r.graph))
          /\ embeddings' = r.embeddings
    /\ pc' = [pc EXCEPT ![w] = "Mut_UE_In"]
    /\ mstep' = [mstep EXCEPT ![w] = 2]
    /\ UNCHANGED <<settings, unitVars, storeVars, lockVars, globalVars, phase,
                   error_message, input, child, new_execution,
                   current_execution, forbidden_execution, history_snapshot,
                   tui_pc, ghostVars>>

\* The end of UpdateEmbeddings in ComputeBehavioralGradient, its embedding
\* reads under graph_mutex, and lines 800-885 and 680-694: the new input has
\* max(|x_c|, |x_f|) bytes and is then resized to the thread's size.
MutatorOutput(w) ==
    /\ pc[w] = "Mut_UE_In"
    /\ mstep[w] = 2
    /\ graph_mutex = NoThread
    /\ graph' \in TrainedGraphs(graph)
    /\ LET n == Max(Len(current_execution[w].input),
                    Len(forbidden_execution[w].input))
       IN IF n = 0
          THEN Throw(w, "Cannot compute gradient: jacobian or dL/dy is empty")
          ELSE /\ \E x \in Inputs(n) :
                     \E y \in ResizedInputs(x, ThreadInputSize(w)) :
                        input' = [input EXCEPT ![w] = y]
               /\ pc' = [pc EXCEPT ![w] = "EO_Fork"]
               /\ mstep' = [mstep EXCEPT ![w] = 0]
               /\ forbidden_execution' =
                      [forbidden_execution EXCEPT ![w] = EmptyExecution]
               /\ UNCHANGED <<error_message, new_execution,
                              current_execution, history_snapshot>>
    /\ UNCHANGED <<settings, unitVars, storeVars, embeddings, lockVars,
                   globalVars, phase, child, tui_pc, ghostVars>>

\* ------------------------------------------------ dashboard update thread

\* main.cc:180-199: leave on the stop flag; else take the history snapshot
\* and lock knowledge_mutex for the node and edge count.
TuiLoop ==
    /\ tui_pc = "T_Loop"
    /\ IF g_should_stop_fuzzing
       THEN /\ tui_pc' = "T_Done"
            /\ UNCHANGED knowledge_mutex
       ELSE /\ knowledge_mutex = NoThread
            /\ knowledge_mutex' = TuiThread
            /\ tui_pc' = "T_Read"
    /\ UNCHANGED <<settings, unitVars, storeVars, graphVars, graph_mutex, globalVars,
                   ctlVars, localVars, ghostVars>>

\* The walk over knowledge.graph.graph, then the unlock.
TuiRead ==
    /\ tui_pc = "T_Read"
    /\ knowledge_mutex' = NoThread
    /\ tui_pc' = "T_Loop"
    /\ UNCHANGED <<settings, unitVars, storeVars, graphVars, graph_mutex, globalVars,
                   ctlVars, localVars, ghostVars>>

\* SIGINT / SIGTERM handler, or the end of the UI event loop.
RequestStop ==
    /\ ~g_should_stop_fuzzing
    /\ g_should_stop_fuzzing' = TRUE
    /\ UNCHANGED <<settings, unitVars, storeVars, graphVars, lockVars,
                   g_total_executions, g_crash_count, ctlVars, localVars,
                   tui_pc, ghostVars>>

\* ------------------------------------------------------- specifications

WorkerStep(w) ==
    \/ InitializationRun(w)
    \/ ExecForkFails(w)
    \/ ExecWrite(w)
    \/ ExecWait(w)
    \/ CrashLockKnowledge(w)
    \/ CrashCopyBegin(w)
    \/ CrashCopyEnd(w)
    \/ PostExecution(w)
    \/ AddEnter(w)
    \/ AddAbsorb(w)
    \/ AddCheckpoint(w)
    \/ RunBegin(w)
    \/ RunSnapshot(w)
    \/ RunLatest(w)
    \/ LoopStop(w)
    \/ LoopTop(w)
    \/ MutatorLoss(w)
    \/ MutatorLossEnd(w)
    \/ MutatorGradient(w)
    \/ MutatorOutput(w)

TuiStep == TuiLoop \/ TuiRead

\* The workers between fork() and the count of their execution.
InFlight ==
    {v \in Workers : pc[v] \in {"EO_Write", "EO_Wait", "CR_LockK", "CR_LockG",
                                "CR_Copy", "Post_Crash", "AE_Enter", "AE_UGT",
                                "AE_UE_In"}}

\* The first MaxExecutions executions of the workers, all within the first
\* sleep of the dashboard update thread.
Next ==
    \/ \E w \in WorkerIds : WorkerStep(w)
    \/ \E w \in WorkerIds :
          /\ g_total_executions + Cardinality(InFlight) < MaxExecutions
          /\ ExecFork(w)
    \/ \E w \in WorkerIds : ChildExit(w)
    \/ RequestStop

Spec == Init /\ [][Next]_vars

\* Unbounded runs of one worker beside the dashboard update thread.
LiveNext ==
    \/ \E w \in WorkerIds : WorkerStep(w)
    \/ \E w \in WorkerIds : ExecFork(w)
    \/ \E w \in WorkerIds : ChildExit(w)
    \/ TuiStep
    \/ RequestStop

\* Every thread that can take a step is scheduled eventually, and a target
\* that terminates does so eventually; nobody has to request the stop.
Fairness ==
    /\ \A w \in WorkerIds : WF_vars(WorkerStep(w))
    /\ \A w \in WorkerIds : WF_vars(ExecFork(w))
    /\ \A w \in WorkerIds : WF_vars(ChildExit(w))
    /\ WF_vars(TuiStep)

LiveSpec == LiveInit /\ [][LiveNext]_vars /\ Fairness

\* A caller of the store's interface: where a worker would pick an input and
\* run the target, it passes any execution to AddExecutionIfDifferent.
ApiExecutions ==
    {[trace |-> t, input |-> x] :
        t \in {<< >>, <<1>>, <<1, 2>>, <<2>>, <<2, 1>>},
        x \in {<< >>, <<0>>}}

ApiCall(w) ==
    /\ pc[w] = "IR_Loop"
    /\ \E e \in ApiExecutions :
          new_execution' = [new_execution EXCEPT ![w] = e]
    /\ pc' = [pc EXCEPT ![w] = "AE_Enter"]
    /\ ForgetAdd(w)
    /\ UNCHANGED <<settings, unitVars, storeVars, graphVars, lockVars,
                   globalVars,
                   phase, error_message, input, child, current_execution,
                   forbidden_execution, history_snapshot, mstep, tui_pc,
                   ever_added, current_source>>

ApiNext ==
    \/ \E w \in WorkerIds : ApiCall(w)
    \/ \E w \in WorkerIds : AddEnter(w)
    \/ \E w \in WorkerIds : AddAbsorb(w)
    \/ \E w \in WorkerIds : AddCheckpoint(w)

ApiSpec == Init /\ [][ApiNext]_vars

\* One worker on a store that main has filled from a checkpoint.
LoadSpec == LoadInit /\ [][Next]_vars

SizeSpec == SizeInit /\ [][Next]_vars

\* ------------------------------------- the trace region, step by step

\* The region a worker's child attaches: the name /topfuzz_trace_<thread_id>
\* the constructor builds and passes after -shm.
RegionOf(w) == w

\* A region whose count is left as it was.
KeepCount(r) == r

\* shared_trace->trace_count = 0; shared_trace_clear(shared_trace)
ClearRegion(r) == [r EXCEPT !.trace_count = 0]

\* max_write of event_exit.
MaxWrite(t) == Min(Len(t.exec_trace), RegionCapacity)

\* The copy of ExecOnce: count_to_read offsets from the start of the array.
ReadRegion(r) ==
    [k \in 1..Min(r.trace_count, RegionCapacity) |-> r.addresses[k]]

\* The caller hands ExecOnce an input; ExecOnce clears the count of its
\* own region before pipe() and fork().
ExecClear(w) ==
    /\ pc[w] = "IR_Loop"
    /\ child[w] = "none"
    /\ \E x \in Inputs(ThreadInputSize(w)) : input' = [input EXCEPT ![w] = x]
    /\ shared_trace' = [shared_trace EXCEPT ![w] = ClearRegion(@)]
    /\ pc' = [pc EXCEPT ![w] = "EO_Fork"]
    /\ UNCHANGED <<settings, call, tracer, storeVars, graphVars, lockVars,
                   globalVars, phase, error_message, child, new_execution,
                   current_execution, forbidden_execution, history_snapshot,
                   mstep, tui_pc, ghostVars>>

\* dr_client_main in the new child: an empty exec_trace; the run of the
\* target then appends the offsets of the blocks it enters (bb_exec_trace).
TracerRun(w) ==
    /\ child[w] = "running"
    /\ tracer[w].stage = "none"
    /\ \E t \in TracerTraces :
          tracer' = [tracer EXCEPT ![w] =
                        [stage |-> "app", exec_trace |-> t, i |-> 0]]
    /\ UNCHANGED <<settings, call, shared_trace, storeVars, graphVars, lockVars,
                   globalVars, ctlVars, localVars, tui_pc, ghostVars>>

\* The target ends (exit, or a fatal signal the client intercepts) and the
\* client's exit event starts: event_exit attaches the region by name.
TracerExit(w) ==
    /\ child[w] = "running"
    /\ tracer[w].stage = "app"
    /\ tracer' = [tracer EXCEPT ![w].stage = "fill", ![w].i = 0]
    /\ UNCHANGED <<settings, call, shared_trace, storeVars, graphVars, lockVars,
                   globalVars, ctlVars, localVars, tui_pc, ghostVars>>

\* One pass of the loop: shm->addresses[i] = (uint32_t)offset.
TracerFill(w) ==
    /\ child[w] = "running"
    /\ tracer[w].stage = "fill"
    /\ tracer[w].i < MaxWrite(tracer[w])
    /\ shared_trace' =
           [shared_trace EXCEPT ![RegionOf(w)].addresses[tracer[w].i + 1] =
               tracer[w].exec_trace[tracer[w].i + 1] % U32Modulus]
    /\ tracer' = [tracer EXCEPT ![w].i = @ + 1]
    /\ UNCHANGED <<settings, call, storeVars, graphVars, lockVars,
                   globalVars, ctlVars, localVars, tui_pc, ghostVars>>

\* shm->trace_count = (uint32_t)max_write, after the loop.
TracerPublish(w) ==
    /\ child[w] = "running"
    /\ tracer[w].stage = "fill"
    /\ tracer[w].i = MaxWrite(tracer[w])
    /\ shared_trace' =
           [shared_trace EXCEPT ![RegionOf(w)].trace_count =
               MaxWrite(tracer[w])]
    /\ tracer' = [tracer EXCEPT ![w].stage = "done"]
    /\ UNCHANGED <<settings, call, storeVars, graphVars, lockVars,
                   globalVars, ctlVars, localVars, tui_pc, ghostVars>>

\* The child process ends after its exit event, with the status of the
\* target: an exit code or the signal that ended it.
TracerEnd(w) ==
    /\ child[w] = "running"
    /\ tracer[w].stage = "done"
    /\ \E how \in ChildEnds : child' = [child EXCEPT ![w] = how]
    /\ UNCHANGED <<settings, unitVars, storeVars, graphVars, lockVars,
                   globalVars, ctlVars, input, new_execution,
                   current_execution, forbidden_execution, history_snapshot,
                   mstep, tui_pc, ghostVars>>

\* The child ends before its exit event has published: execvp fails
\* (_exit(1)), or a signal that cannot be intercepted kills it, also in the
\* middle of the loop of event_exit.
TracerKilled(w) ==
    /\ child[w] = "running"
    /\ tracer[w].stage \in {"none", "app", "fill"}
    /\ \E how \in ChildEnds : child' = [child EXCEPT ![w] = how]
    /\ UNCHANGED <<settings, unitVars, storeVars, graphVars, lockVars,
                   globalVars, ctlVars, input, new_execution,
                   current_execution, forbidden_execution, history_snapshot,
                   mstep, tui_pc, ghostVars>>

\* waitpid(pid, &status, 0), then the read of trace_count and the memcpy
\* of count_to_read offsets; ExecOnce returns the execution to its caller.
ExecRead(w) ==
    /\ pc[w] = "EO_Wait"
    /\ child[w] \in ChildEnds
    /\ new_execution' = [new_execution EXCEPT ![w] =
           [trace |-> ReadRegion(shared_trace[w]), input |-> input[w]]]
    /\ child' = [child EXCEPT ![w] = "none"]
    /\ tracer' = [tracer EXCEPT ![w] = NoTracer]
    /\ input' = [input EXCEPT ![w] = << >>]
    /\ pc' = [pc EXCEPT ![w] = "IR_Loop"]
    /\ UNCHANGED <<settings, call, shared_trace, storeVars, graphVars, lockVars,
                   globalVars, phase, error_message, current_execution,
                   forbidden_execution, history_snapshot, mstep, tui_pc,
                   ghostVars>>

TraceNext ==
    \/ \E w \in WorkerIds : ExecClear(w)
    \/ \E w \in WorkerIds : ExecFork(w)
    \/ \E w \in WorkerIds : ExecForkFails(w)
    \/ \E w \in WorkerIds : ExecWrite(w)
    \/ \E w \in WorkerIds : TracerRun(w)
    \/ \E w \in WorkerIds : TracerExit(w)
    \/ \E w \in WorkerIds : TracerFill(w)
    \/ \E w \in WorkerIds : TracerPublish(w)
    \/ \E w \in WorkerIds : TracerEnd(w)
    \/ \E w \in WorkerIds : TracerKilled(w)
    \/ \E w \in WorkerIds : ExecRead(w)

TraceSpec == Init /\ [][TraceNext]_vars

\* ------------------------------------------------------ EmbeddingLoss

\* Embedding vectors in fixed point (one unit is 0.025): the zero vector,
\* two opposite vectors and a vector along the first axis.  A new node's
\* random initial embedding, uniform in [-0.1, 0.1), is one of them.
EmbeddingValues ==
    {[d \in 1..EmbeddingDim |-> 0],
     [d \in 1..EmbeddingDim |-> 2],
     [d \in 1..EmbeddingDim |-> 0 - 2],
     [d \in 1..EmbeddingDim |-> IF d = 1 THEN 2 ELSE 0]}

\* The traces handed to the loss and the traces absorbed before the call.
LossTraces == {<< >>, <<1>>, <<1, 1>>, <<1, 2>>}
PriorTraces == {<< >>, <<1>>, <<2, 1>>}

\* window_size of the Skip-gram training (knowledge.cc:9).
WindowSize == 3

Abs(x) == IF x < 0 THEN 0 - x ELSE x

\* floor of the square root
ISqrt(n) == CHOOSE r \in 0..n : r * r <= n /\ n < (r + 1) * (r + 1)

RECURSIVE SumSeq(_)
SumSeq(q) == IF q = << >> THEN 0 ELSE Head(q) + SumSeq(Tail(q))

\* CosineSimilarity of two embeddings of EmbeddingDim components, in
\* fixed point: dot / sqrt(mag_y1 * mag_y2), and 0.0 when a magnitude is 0.
CosineSimilarity(a, b) ==
    LET dot == SumSeq([d \in 1..EmbeddingDim |-> a[d] * b[d]])
        mag_y1 == SumSeq([d \in 1..EmbeddingDim |-> a[d] * a[d]])
        mag_y2 == SumSeq([d \in 1..EmbeddingDim |-> b[d] * b[d]])
    IN IF mag_y1 = 0 \/ mag_y2 = 0 THEN 0
       ELSE (dot * LossScale) \div ISqrt(mag_y1 * mag_y2)

\* ExploredGraph::MeanEmbedding: the sum of the embeddings of the trace's
\* nodes that have one, divided by their number; zero when there is none.
MeanEmbedding(emb, trace) ==
    LET have == SelectSeq(trace, LAMBDA n : n \in DOMAIN emb)
        node_count == Len(have)
    IN [d \in 1..EmbeddingDim |->
           IF node_count > 0
           THEN SumSeq([k \in 1..node_count |-> emb[have[k]][d]])
                    \div node_count
           ELSE 0]

\* The walks GenerateBiasedRandomWalk can return: from a node with
\* successors, along edges, up to the walk length or a node without
\* successors.
Walks(g) ==
    {wk \in UNION {[1..n -> DOMAIN g] : n \in 2..MaxWalkLength} :
        /\ \A k \in 1..(Len(wk) - 1) : Contains(g[wk[k]], wk[k + 1])
        /\ Len(wk) = MaxWalkLength \/ g[wk[Len(wk)]] = << >>}

\* The calls followed: the graph has absorbed one earlier trace, its nodes
\* carry any of the embedding values, and the loss is called on two traces.
LossCalls ==
    {[op |-> "EmbeddingLoss", stage |-> "entry", walk |-> y,
      forbidden_walk |-> f,
      graph |-> UpdateGraphFromTrace(<< >>, << >>, pe[1]).graph,
      embeddings |-> pe[2], steps |-> 0, result |-> 0] :
        y \in LossTraces, f \in LossTraces,
        pe \in UNION {{<<p, e>> :
                         e \in [{p[k] : k \in 1..Len(p)} -> EmbeddingValues]} :
                      p \in PriorTraces}}

LossInit ==
    /\ settings = [thread_count |-> 1,
                   max_history_count |-> MaxHistoryCount,
                   input_size |-> [min |-> 1, max |-> 1, step |-> 1],
                   target |-> [reads |-> TRUE, hangs |-> FALSE]]
    /\ FreshStore
    /\ FreshThreads
    /\ call \in LossCalls

\* EmbeddingLoss, lines 30-42: the two entry checks, then the two absorbs;
\* a node new to the graph gets a random embedding.
LossAbsorb ==
    /\ call.op = "EmbeddingLoss"
    /\ call.stage = "entry"
    /\ IF call.walk = << >> \/ call.forbidden_walk = << >>
       THEN call' = [call EXCEPT !.stage = "threw"]
       ELSE LET r == AbsorbBoth(call.graph, call.embeddings, call.walk,
                                call.forbidden_walk)
            IN \E e \in [DOMAIN r.embeddings -> EmbeddingValues] :
                  /\ \A n \in DOMAIN call.embeddings :
                        e[n] = call.embeddings[n]
                  /\ call' = [call EXCEPT !.stage = "train",
                                          !.graph = r.graph,
                                          !.embeddings = e]
    /\ UNCHANGED <<settings, regionVars, storeVars, graphVars, lockVars,
                   globalVars, ctlVars, localVars, tui_pc, ghostVars>>

\* TrainSkipGram, the positive sample of a centre and a context node of one
\* walk: each embedding moves along the other by the gradient factor
\* (1 - sigmoid) * learning_rate, whole units here.  When both are the same
\* node the two additions fall on one vector.
LossTrainPositive ==
    /\ call.op = "EmbeddingLoss"
    /\ call.stage = "train"
    /\ call.steps < MaxTrainSteps
    /\ \E wk \in Walks(call.graph) : \E i, j \in 1..Len(wk) :
          /\ i # j
          /\ Abs(i - j) <= WindowSize
          /\ LET center == wk[i]
                 context == wk[j]
                 e == call.embeddings
             IN /\ center \in DOMAIN e
                /\ context \in DOMAIN e
                /\ call' = [call EXCEPT
                      !.steps = @ + 1,
                      !.embeddings =
                          [n \in DOMAIN e |->
                              [d \in 1..EmbeddingDim |->
                                  IF center = context /\ n = center
                                  THEN e[n][d] + 2 * e[n][d]
                                  ELSE IF n = center
                                  THEN e[n][d] + e[context][d]
                                  ELSE IF n = context
                                  THEN e[n][d] + e[center][d]
                                  ELSE e[n][d]]]]
    /\ UNCHANGED <<settings, regionVars, storeVars, graphVars, lockVars,
                   globalVars, ctlVars, localVars, tui_pc, ghostVars>>

\* TrainSkipGram, a negative sample: a node outside the walk (any node when
\* the walk covers the graph) other than the centre and the context; the
\* centre and the sample move against each other by sigmoid * learning_rate.
LossTrainNegative ==
    /\ call.op = "EmbeddingLoss"
    /\ call.stage = "train"
    /\ call.steps < MaxTrainSteps
    /\ \E wk \in Walks(call.graph) : \E i, j \in 1..Len(wk) :
          /\ i # j
          /\ Abs(i - j) <= WindowSize
          /\ LET center == wk[i]
                 context == wk[j]
                 e == call.embeddings
                 outside == {n \in DOMAIN e : ~Contains(wk, n)}
                 negative_candidates ==
                     IF outside = {} THEN DOMAIN e ELSE outside
             IN /\ center \in DOMAIN e
                /\ context \in DOMAIN e
                /\ \E negative_node \in negative_candidates :
                      /\ negative_node # center
                      /\ negative_node # context
                      /\ call' = [call EXCEPT
                            !.steps = @ + 1,
                            !.embeddings =
                                [n \in DOMAIN e |->
                                    [d \in 1..EmbeddingDim |->
                                        IF n = center
                                        THEN e[n][d] - e[negative_node][d]
                                        ELSE IF n = negative_node
                                        THEN e[n][d] - e[center][d]
                                        ELSE e[n][d]]]]
    /\ UNCHANGED <<settings, regionVars, storeVars, graphVars, lockVars,
                   globalVars, ctlVars, localVars, tui_pc, ghostVars>>

\* EmbeddingLoss, lines 47-60: the two mean embeddings, their cosine
\* similarity and (similarity + 1.0) / 2.0.
LossFinish ==
    /\ call.op = "EmbeddingLoss"
    /\ call.stage = "train"
    /\ LET emb_walk == MeanEmbedding(call.embeddings, call.walk)
           emb_forbidden ==
               MeanEmbedding(call.embeddings, call.forbidden_walk)
           similarity == CosineSimilarity(emb_walk, emb_forbidden)
       IN call' = [call EXCEPT !.stage = "done",
                               !.result = (similarity + LossScale) \div 2]
    /\ UNCHANGED <<settings, regionVars, storeVars, graphVars, lockVars,
                   globalVars, ctlVars, localVars, tui_pc, ghostVars>>

LossNext ==
    \/ LossAbsorb
    \/ LossTrainPositive
    \/ LossTrainNegative
    \/ LossFinish

LossSpec == LossInit /\ [][LossNext]_vars

\* --------------------------- GenerateNewInputWithGradientDescent, step 4

\* Octets of the current input.
MutatorBytes == {0, 1, MaxByte}

\* Exploration speeds, in units of 1 / SpeedScale: -1.0, 0.0, one unit, 1.0.
SpeedValues == {0 - SpeedScale, 0, 1, SpeedScale}

\* Components of dL/dx, in units of 1 / SpeedScale: one unit more than
\* -256.0, -1.0, minus one unit, 0.0, one unit, 1.0.
GradientValues ==
    {1 - ByteModulus * SpeedScale, 0 - SpeedScale, 0 - 1, 0, 1, SpeedScale}

\* A freeze test that only takes a speed of exactly zero.
FrozenAtZero(eta) == eta = 0

\* if (eta <= 0.0)
Frozen(eta) == eta <= 0

\* (j < x_current.size()) ? x_current[j] : 0, for the 1-based position j
ByteAt(x, j) == IF j <= Len(x) THEN x[j] ELSE 0

\* update = x_j - eta * dL_dx[j], as a number of 1 / SpeedScale^2
UpdateOf(x, eta, g, j) == ByteAt(x, j) * SpeedScale * SpeedScale - eta * g

\* The clamp at 0 and std::fmod(update, 256.0) above 255, on a number of
\* 1 / SpeedScale^2
Wrapped(u) ==
    IF u < 0 THEN 0
    ELSE IF u > MaxByte * SpeedScale * SpeedScale
    THEN u % (ByteModulus * SpeedScale * SpeedScale)
    ELSE u

\* std::round of a non-negative number of 1 / SpeedScale^2: halves go up.
Round(u) == (2 * u + SpeedScale * SpeedScale) \div (2 * SpeedScale * SpeedScale)

\* (u8) of a double with an integral value: the value when it fits; the
\* conversion of a value out of the range of the type is undefined, and
\* yields the low octet of a wider conversion or the saturated octet.
CastU8(v) == IF v <= MaxByte THEN {v} ELSE {v % ByteModulus, MaxByte}

\* The calls followed: a current input, the Jacobian's number of columns
\* (the longer of the two inputs), the speeds and dL/dx.
MutatorCalls ==
    {[op |-> "GenerateNewInput", stage |-> "entry", x_current |-> x,
      max_dim_x |-> Len(g), exploration_speed |-> eta, dL_dx |-> g,
      x_new |-> << >>] :
        x \in UNION {[1..n -> MutatorBytes] : n \in 1..MaxInputDim},
        eta \in UNION {[1..n -> SpeedValues] : n \in 1..MaxInputDim},
        g \in UNION {[1..n -> GradientValues] : n \in 1..MaxInputDim}}

MutatorInit ==
    /\ settings = [thread_count |-> 1,
                   max_history_count |-> MaxHistoryCount,
                   input_size |-> [min |-> 1, max |-> 1, step |-> 1],
                   target |-> [reads |-> TRUE, hangs |-> FALSE]]
    /\ FreshStore
    /\ FreshThreads
    /\ call \in {c \in MutatorCalls : Len(c.x_current) <= c.max_dim_x}

\* x_new.resize(max_dim_x) and the size check of exploration_speed.
MutatorEnter ==
    /\ call.op = "GenerateNewInput"
    /\ call.stage = "entry"
    /\ call' = [call EXCEPT !.stage =
                   IF Len(call.exploration_speed) # call.max_dim_x
                   THEN "threw" ELSE "loop"]
    /\ UNCHANGED <<settings, regionVars, storeVars, graphVars, lockVars,
                   globalVars, ctlVars, localVars, tui_pc, ghostVars>>

\* One pass of the loop over j: the frozen byte, or the update, its clamp
\* and wrap, the rounding and the cast.
MutatorByte ==
    /\ call.op = "GenerateNewInput"
    /\ call.stage = "loop"
    /\ Len(call.x_new) < call.max_dim_x
    /\ LET j == Len(call.x_new) + 1
           eta == call.exploration_speed[j]
       IN \E b \in (IF Frozen(eta) THEN {ByteAt(call.x_current, j)}
                    ELSE CastU8(Round(Wrapped(
                            UpdateOf(call.x_current, eta, call.dL_dx[j], j))))) :
             call' = [call EXCEPT !.x_new = Append(@, b)]
    /\ UNCHANGED <<settings, regionVars, storeVars, graphVars, lockVars,
                   globalVars, ctlVars, localVars, tui_pc, ghostVars>>

\* return x_new
MutatorReturn ==
    /\ call.op = "GenerateNewInput"
    /\ call.stage = "loop"
    /\ Len(call.x_new) = call.max_dim_x
    /\ call' = [call EXCEPT !.stage = "done"]
    /\ UNCHANGED <<settings, regionVars, storeVars, graphVars, lockVars,
                   globalVars, ctlVars, localVars, tui_pc, ghostVars>>

MutatorNext ==
    \/ MutatorEnter
    \/ MutatorByte
    \/ MutatorReturn

MutatorSpec == MutatorInit /\ [][MutatorNext]_vars

\* ------------------------- exploration speed: the tail of Run's loop body

\* Octets of the inputs the loop compares.
SpeedBytes == {0, 1}

\* The default acceleration 0.001, in units of which acceleration * 0.1 is
\* PositiveStep.
Acceleration == 10 * PositiveStep

\* The literal 1.0 in the same units. 0.001 as a double is a little more
\* than 1/1000, and in IEEE-754 doubles -1.0 plus ThawSteps additions of it
\* is 8.8e-16, not 0.0: 1.0 is one unit less than ThawSteps accelerations.
One == ThawSteps * Acceleration - 1

\* The default_eta 0.01 of InitializeExplorationSpeed, and the 0.01 of the
\* resize in FreezeBytesForNewTrace: ten times the default acceleration.
DefaultEta == 10 * Acceleration

\* An exploration_speed left as it is.
KeepExplorationSpeed(eta, input_size) == eta

\* exploration_speed.resize(input_size, default_eta) on a vector: resize
\* truncates, or appends default_eta.
InitializeExplorationSpeed(eta, input_size) ==
    [i \in 1..input_size |-> IF i <= Len(eta) THEN eta[i] ELSE DefaultEta]

\* A freeze that takes every byte of the longer input.
FreezeEveryByte(eta, old_input, new_input) ==
    [i \in 1..Max(Len(eta), Max(Len(old_input), Len(new_input))) |-> 0 - One]

\* FreezeBytesForNewTrace: the vector is grown to the longer input with
\* 0.01, and -1.0 is stored wherever the two inputs differ (a missing byte
\* reads as 0).
FreezeBytesForNewTrace(eta, old_input, new_input) ==
    LET max_size == Max(Len(old_input), Len(new_input))
        sized == IF Len(eta) < max_size
                 THEN InitializeExplorationSpeed(eta, max_size) ELSE eta
    IN [i \in 1..Len(sized) |->
           IF i <= max_size /\ ByteAt(old_input, i) # ByteAt(new_input, i)
           THEN 0 - One ELSE sized[i]]

\* A thaw that leaves every speed as it is.
KeepSpeed(speed, acceleration) == speed

\* The body of the loop of AccelerateExplorationSpeed on one speed: a
\* negative speed gains the acceleration (capped at 1.0 once positive), a
\* positive one a tenth of it (capped at 1.0), and 0.0 is left alone.
AccelerateSpeed(speed, acceleration) ==
    IF speed < 0
    THEN LET s == speed + acceleration
         IN IF s > 0 THEN Min(s, One) ELSE s
    ELSE IF speed > 0
    THEN Min(speed + acceleration \div 10, One)
    ELSE speed

\* AccelerateExplorationSpeed over the vector.
AccelerateExplorationSpeed(eta, acceleration) ==
    [i \in 1..Len(eta) |-> AccelerateSpeed(eta[i], acceleration)]

\* The count of thaw steps since a speed was last set to -1.0 is followed
\* up to the step from which -1.0 + t * acceleration is above 1.0.
ThawCap == 2 * ThawSteps

\* Run before its loop, for a worker whose thread_input_size is n: the
\* current input and the exploration speeds have that length, every speed
\* is default_eta.
SpeedRuns(n) ==
    {[op |-> "Run", stage |-> "loop", current_input |-> x,
      new_input |-> << >>, was_added |-> FALSE,
      speed_before |-> [i \in 1..n |-> DefaultEta],
      exploration_speed |-> [i \in 1..n |-> DefaultEta],
      thaws |-> 0] : x \in [1..n -> SpeedBytes]}

SpeedInitFor(n) ==
    /\ settings = [thread_count |-> 1,
                   max_history_count |-> MaxHistoryCount,
                   input_size |-> [min |-> n, max |-> n, step |-> 1],
                   target |-> [reads |-> TRUE, hangs |-> FALSE]]
    /\ FreshStore
    /\ FreshThreads
    /\ call \in SpeedRuns(n)

SpeedInit == SpeedInitFor(MaxInputDim)

\* One worker with a single byte.
LiveSpeedInit == SpeedInitFor(1)

\* The mutator's output, run on the target, and the try-insert: the
\* produced input keeps every byte whose speed is zero or negative, and
\* the insert answers either way.
SpeedMutate ==
    /\ call.op = "Run"
    /\ call.stage = "loop"
    /\ \E y \in [1..Len(call.current_input) -> SpeedBytes] :
       \E added \in BOOLEAN :
          /\ \A j \in 1..Len(y) :
                Frozen(call.exploration_speed[j])
                => y[j] = call.current_input[j]
          /\ call' = [call EXCEPT !.stage = "executed",
                                  !.new_input = y,
                                  !.was_added = added,
                                  !.speed_before = call.exploration_speed]
    /\ UNCHANGED <<settings, regionVars, storeVars, graphVars, lockVars,
                   globalVars, ctlVars, localVars, tui_pc, ghostVars>>

\* if (was_added) FreezeBytesForNewTrace(current_execution.input,
\* new_execution.input)
SpeedFreeze ==
    /\ call.op = "Run"
    /\ call.stage = "executed"
    /\ LET eta == IF call.was_added
                  THEN FreezeBytesForNewTrace(call.exploration_speed,
                                              call.current_input,
                                              call.new_input)
                  ELSE call.exploration_speed
       IN call' = [call EXCEPT !.stage = "frozen",
                               !.exploration_speed = eta,
                               !.thaws = IF eta # call.exploration_speed
                                         THEN 0 ELSE @]
    /\ UNCHANGED <<settings, regionVars, storeVars, graphVars, lockVars,
                   globalVars, ctlVars, localVars, tui_pc, ghostVars>>

\* AccelerateExplorationSpeed() and current_execution = new_execution
SpeedThaw ==
    /\ call.op = "Run"
    /\ call.stage = "frozen"
    /\ call' = [call EXCEPT !.stage = "loop",
                            !.exploration_speed =
                                AccelerateExplorationSpeed(@, Acceleration),
                            !.thaws = Min(@ + 1, ThawCap),
                            !.current_input = call.new_input,
                            !.new_input = << >>,
                            !.was_added = FALSE]
    /\ UNCHANGED <<settings, regionVars, storeVars, graphVars, lockVars,
                   globalVars, ctlVars, localVars, tui_pc, ghostVars>>

SpeedNext ==
    \/ SpeedMutate
    \/ SpeedFreeze
    \/ SpeedThaw

SpeedSpec == SpeedInit /\ [][SpeedNext]_vars

\* The loop body is run again and again while the worker is not stopped.
LiveSpeedSpec == LiveSpeedInit /\ [][SpeedNext]_vars /\ WF_vars(SpeedNext)

\* --------------------------------- the checkpoint file and the restart

\* The words of a file: u32 values, octets, doubles and the endianness
\* flag, one element each.  A FuzzerKnowledge object is a record of the
\* settings and the members the file holds.

\* IsLittleEndian() of the machine.
LittleEndian == 1

\* The strings of the settings, as character codes.
TracerLib == <<3>>
DrrunPath == <<4>>
WorkDir == <<5>>

\* Settings(argc, argv) of a run: its ring capacity and target.
RunSettings(max_history_count, target_program) ==
    [input_size |-> [min |-> 1, max |-> 1, step |-> 1],
     thread_count |-> 1,
     max_history_count |-> max_history_count,
     target_program |-> target_program,
     tracer_lib |-> TracerLib,
     drrun_path |-> DrrunPath,
     work_dir |-> WorkDir]

\* ExploredGraph(4, 42, 1.0, 1.0, 10, 5, 3, 0.025): p, q, walk_length,
\* num_walks, window_size and learning_rate (doubles in thousandths).
DefaultParameters ==
    [p |-> 1000, q |-> 1000, walk_length |-> 10, num_walks |-> 5,
     window_size |-> WindowSize, learning_rate |-> 25]

\* FuzzerKnowledge(settings): history.resize(max_history_count), index 0,
\* an empty graph with the default parameters.
FreshKnowledge(s) ==
    [settings |-> s,
     history |-> [i \in 1..s.max_history_count |-> EmptyExecution],
     history_index |-> 0,
     graph |-> << >>,
     embeddings |-> << >>,
     embedding_dim |-> EmbeddingDim,
     parameters |-> DefaultParameters,
     ZERO_EMBEDDING |-> [d \in 1..EmbeddingDim |-> 0]]

RECURSIVE Flatten(_)
Flatten(ss) == IF ss = << >> THEN << >> ELSE Head(ss) \o Flatten(Tail(ss))

\* The orders in which an unordered_map can hand out its keys.
KeyOrders(S) ==
    {o \in [1..Cardinality(S) -> S] :
        \A i, j \in 1..Cardinality(S) : i # j => o[i] # o[j]}

\* WriteString, WriteU8Vector, WriteU32Vector, WriteEmbedding: the size,
\* then the elements.
WriteVector(vec) == <<Len(vec)>> \o vec

\* WriteFuzzExecution
WriteFuzzExecution(exec) == WriteVector(exec.trace) \o WriteVector(exec.input)

\* SerializeKnowledge: the files it can write for a FuzzerKnowledge, one
\* for each order of the two maps.
SerializeKnowledge(k) ==
    {<<LittleEndian, k.settings.input_size.min, k.settings.input_size.max,
       k.settings.input_size.step, k.settings.thread_count,
       k.settings.max_history_count>>
      \o WriteVector(k.settings.target_program)
      \o WriteVector(k.settings.tracer_lib)
      \o WriteVector(k.settings.drrun_path)
      \o WriteVector(k.settings.work_dir)
      \o <<k.history_index, Len(k.history)>>
      \o Flatten([i \in 1..Len(k.history) |-> WriteFuzzExecution(k.history[i])])
      \o <<k.embedding_dim, k.parameters.p, k.parameters.q,
           k.parameters.walk_length, k.parameters.num_walks,
           k.parameters.window_size, k.parameters.learning_rate>>
      \o <<Cardinality(DOMAIN k.graph)>>
      \o Flatten([i \in 1..Len(go) |-> <<go[i]>> \o WriteVector(k.graph[go[i]])])
      \o <<Cardinality(DOMAIN k.embeddings)>>
      \o Flatten([i \in 1..Len(eo) |->
                     <<eo[i]>> \o WriteVector(k.embeddings[eo[i]])])
      \o WriteVector(k.ZERO_EMBEDDING) :
         go \in KeyOrders(DOMAIN k.graph),
         eo \in KeyOrders(DOMAIN k.embeddings)}

\* A read that fails: in.fail() and the runtime_error that follows.
ReadFailed == [ok |-> FALSE, value |-> << >>, next |-> 0]

\* in.read of one u32, bool or double at position pos of the file
ReadWord(file, pos) ==
    IF pos > Len(file) THEN ReadFailed
    ELSE [ok |-> TRUE, value |-> file[pos], next |-> pos + 1]

\* The fixed-size reads of n words in a row; the value is their sequence.
ReadWords(file, pos, n) ==
    IF pos + n - 1 > Len(file) THEN ReadFailed
    ELSE [ok |-> TRUE, value |-> SubSeq(file, pos, pos + n - 1),
          next |-> pos + n]

\* ReadString, ReadU8Vector, ReadU32Vector, ReadEmbedding: the size, then
\* exactly that many elements.
ReadVector(file, pos) ==
    LET size == ReadWord(file, pos)
    IN IF ~size.ok THEN ReadFailed
       ELSE ReadWords(file, pos + 1, size.value)

\* ReadFuzzExecution
ReadFuzzExecution(file, pos) ==
    LET trace == ReadVector(file, pos)
        input_ == IF trace.ok THEN ReadVector(file, trace.next)
                  ELSE ReadFailed
    IN IF ~input_.ok THEN ReadFailed
       ELSE [ok |-> TRUE,
             value |-> [trace |-> trace.value, input |-> input_.value],
             next |-> input_.next]

\* for (i < history_size) knowledge.history[i] = ReadFuzzExecution(in):
\* the entries from i on, read into the ring hist.
RECURSIVE ReadHistory(_, _, _, _, _)
ReadHistory(file, pos, hist, i, history_size) ==
    IF i > history_size THEN [ok |-> TRUE, value |-> hist, next |-> pos]
    ELSE LET exec == ReadFuzzExecution(file, pos)
         IN IF ~exec.ok THEN [ok |-> FALSE, value |-> hist, next |-> 0]
            ELSE ReadHistory(file, exec.next,
                             [hist EXCEPT ![i] = exec.value], i + 1,
                             history_size)

\* for (i < num_nodes) graph[node] = ReadU32Vector(in): the entries still
\* to read, into the map g.
RECURSIVE ReadAdjacency(_, _, _, _)
ReadAdjacency(file, pos, g, left) ==
    IF left = 0 THEN [ok |-> TRUE, value |-> g, next |-> pos]
    ELSE LET node == ReadWord(file, pos)
             neighbors == IF node.ok THEN ReadVector(file, node.next)
                          ELSE ReadFailed
         IN IF ~neighbors.ok THEN [ok |-> FALSE, value |-> g, next |-> 0]
            ELSE ReadAdjacency(
                     file, neighbors.next,
                     [n \in DOMAIN g \cup {node.value} |->
                         IF n = node.value THEN neighbors.value ELSE g[n]],
                     left - 1)

\* for (i < num_embeddings) embeddings[node] = ReadEmbedding(in), with the
\* check of its size against embedding_dim.
RECURSIVE ReadEmbeddingTable(_, _, _, _, _)
ReadEmbeddingTable(file, pos, e, left, embedding_dim) ==
    IF left = 0 THEN [ok |-> TRUE, value |-> e, next |-> pos]
    ELSE LET node == ReadWord(file, pos)
             emb == IF node.ok THEN ReadVector(file, node.next)
                    ELSE ReadFailed
         IN IF ~emb.ok \/ Len(emb.value) # embedding_dim
            THEN [ok |-> FALSE, value |-> e, next |-> 0]
            ELSE ReadEmbeddingTable(
                     file, emb.next,
                     [n \in DOMAIN e \cup {node.value} |->
                         IF n = node.value THEN emb.value ELSE e[n]],
                     left - 1, embedding_dim)

\* The targets and ring capacities of the runs on the work directory.
TargetPrograms == {<<7>>, <<8>>}
RunCapacities == {MaxHistoryCount - 1, MaxHistoryCount}

\* The embedding a node carries after the random initialisation and the
\* training of an insert: one vector for each node.
StoredEmbedding(node) == [d \in 1..EmbeddingDim |-> IF d = 1 THEN node ELSE 0]

\* A file of the work directory: absent, or its words.  intact: the words
\* are those SerializeKnowledge wrote last.
NoFile == [exists |-> FALSE, words |-> << >>, intact |-> FALSE]

\* What can happen to a file between two runs: it is removed, cut short,
\* or one of its words is overwritten.
Damaged(file) ==
    {NoFile}
    \cup {[file EXCEPT !.words = SubSeq(file.words, 1, n), !.intact = FALSE] :
             n \in 0..(Len(file.words) - 1)}
    \cup {[file EXCEPT !.words[i] = @ + 1, !.intact = FALSE] :
             i \in 1..Len(file.words)}

\* No run came before, or the start of the run is over and
\* loaded_knowledge is destroyed.
NoPrevious(s) ==
    [settings |-> s, persisted |-> FreshKnowledge(s),
     at_stop |-> FreshKnowledge(s), inserted |-> FALSE, clean |-> FALSE]

\* The first run on an empty work directory, after main has constructed
\* the store: no checkpoint is there.  previous holds what the run before
\* left: the store at its last insert that wrote the checkpoint and at its
\* stop.
MainRuns ==
    {[op |-> "main", stage |-> "running", fresh_start |-> TRUE,
      load |-> "none",
      settings |-> RunSettings(c, <<7>>),
      knowledge |-> FreshKnowledge(RunSettings(c, <<7>>)),
      loaded_knowledge |-> FreshKnowledge(RunSettings(c, <<7>>)),
      file |-> NoFile, pos |-> 0, restarts |-> 0,
      persisted |-> FreshKnowledge(RunSettings(c, <<7>>)),
      inserted |-> FALSE, clean |-> TRUE,
      previous |-> NoPrevious(RunSettings(c, <<7>>))] :
        c \in RunCapacities}

MainInit ==
    /\ settings = [thread_count |-> 1,
                   max_history_count |-> MaxHistoryCount,
                   input_size |-> [min |-> 1, max |-> 1, step |-> 1],
                   target |-> [reads |-> TRUE, hangs |-> FALSE]]
    /\ FreshStore
    /\ FreshThreads
    /\ call \in MainRuns

\* UpdateGraphFromTrace on the adjacency map alone.
AbsorbedGraph(g, trace) == UpdateGraphFromTrace(g, << >>, trace).graph

\* AddExecutionIfDifferent of an execution whose trace no slot holds: the
\* slot write (outside the ring it is lost, or ends the process), the
\* index, the absorb and the training, and SerializeKnowledge, which
\* writes the file or throws with the file untouched or emptied.
CheckpointInsert ==
    /\ call.op = "main"
    /\ call.stage = "running"
    /\ \E exec \in {StoredBefore[i] : i \in 1..Len(StoredBefore)} :
          /\ \A i \in 1..Len(call.knowledge.history) :
                call.knowledge.history[i].trace # exec.trace
          /\ LET k == call.knowledge
                 g == AbsorbedGraph(k.graph, exec.trace)
                 e == [n \in DOMAIN g |-> StoredEmbedding(n)]
             IN LET k1 == [k EXCEPT
                             !.history =
                                 IF k.history_index < Len(k.history)
                                 THEN [@ EXCEPT ![k.history_index + 1] = exec]
                                 ELSE @,
                             !.history_index =
                                 (@ + 1) % k.settings.max_history_count,
                             !.graph = g,
                             !.embeddings = e]
                    started == [call EXCEPT
                                  !.fresh_start = FALSE,
                                  !.load = "none",
                                  !.pos = 0,
                                  !.loaded_knowledge =
                                      FreshKnowledge(call.settings),
                                  !.previous = NoPrevious(call.settings)]
                IN \/ /\ k.history_index >= Len(k.history)
                      /\ call' = [started EXCEPT !.stage = "stopped",
                                                 !.clean = FALSE]
                   \/ \E words \in SerializeKnowledge(k1) :
                         call' = [started EXCEPT
                                    !.knowledge = k1,
                                    !.file = [exists |-> TRUE,
                                              words |-> words,
                                              intact |-> TRUE],
                                    !.persisted = k1,
                                    !.inserted = TRUE]
                   \/ \E file \in {call.file,
                                    [exists |-> TRUE, words |-> << >>,
                                     intact |-> FALSE]} :
                         call' = [started EXCEPT !.knowledge = k1,
                                                 !.stage = "stopped",
                                                 !.file = file,
                                                 !.clean = FALSE]
    /\ UNCHANGED <<settings, regionVars, storeVars, graphVars, lockVars,
                   globalVars, ctlVars, localVars, tui_pc, ghostVars>>

\* The stop flag is set, the workers leave their loops and main returns.
CheckpointStop ==
    /\ call.op = "main"
    /\ call.stage = "running"
    /\ call' = [call EXCEPT !.stage = "stopped",
                            !.fresh_start = FALSE,
                            !.load = "none",
                            !.pos = 0,
                            !.loaded_knowledge = FreshKnowledge(call.settings),
                            !.previous = NoPrevious(call.settings)]
    /\ UNCHANGED <<settings, regionVars, storeVars, graphVars, lockVars,
                   globalVars, ctlVars, localVars, tui_pc, ghostVars>>

\* The file is damaged while no run is there, after the first run; the
\* run that finds it is the last one followed.
CheckpointDamage ==
    /\ call.op = "main"
    /\ call.stage = "stopped"
    /\ call.restarts = 0
    /\ call.file.exists
    /\ call.file.intact
    /\ \E file \in Damaged(call.file) :
          call' = [call EXCEPT !.file = file, !.restarts = MaxRestarts - 1]
    /\ UNCHANGED <<settings, regionVars, storeVars, graphVars, lockVars,
                   globalVars, ctlVars, localVars, tui_pc, ghostVars>>

\* main, lines 82-89, and DeserializeKnowledge up to the resize of the
\* ring: a run starts with its settings, constructs loaded_knowledge,
\* opens the file and reads the endianness flag and the settings into it.
CheckpointOpen ==
    /\ call.op = "main"
    /\ call.stage = "stopped"
    /\ call.restarts < MaxRestarts
    /\ \E c \in RunCapacities : \E t \in TargetPrograms :
          LET s == RunSettings(c, t)
              file == call.file.words
              endian == ReadWord(file, 1)
              numbers == ReadWords(file, 2, 5)
              target_program == IF numbers.ok
                                THEN ReadVector(file, numbers.next)
                                ELSE ReadFailed
              tracer_lib == IF target_program.ok
                            THEN ReadVector(file, target_program.next)
                            ELSE ReadFailed
              drrun_path == IF tracer_lib.ok
                            THEN ReadVector(file, tracer_lib.next)
                            ELSE ReadFailed
              work_dir == IF drrun_path.ok
                          THEN ReadVector(file, drrun_path.next)
                          ELSE ReadFailed
              ok == /\ call.file.exists
                    /\ endian.ok
                    /\ endian.value = LittleEndian
                    /\ work_dir.ok
              read == [input_size |-> [min |-> numbers.value[1],
                                       max |-> numbers.value[2],
                                       step |-> numbers.value[3]],
                       thread_count |-> numbers.value[4],
                       max_history_count |-> numbers.value[5],
                       target_program |-> target_program.value,
                       tracer_lib |-> tracer_lib.value,
                       drrun_path |-> drrun_path.value,
                       work_dir |-> work_dir.value]
          IN call' = [call EXCEPT
                 !.stage = IF ok THEN "read_history" ELSE "threw",
                 !.settings = s,
                 !.knowledge = FreshKnowledge(s),
                 !.loaded_knowledge =
                     IF ok
                     THEN [FreshKnowledge(s) EXCEPT
                             !.settings = read,
                             !.history =
                                 [i \in 1..read.max_history_count |->
                                     EmptyExecution]]
                     ELSE FreshKnowledge(s),
                 !.pos = IF ok THEN work_dir.next ELSE 0,
                 !.restarts = @ + 1,
                 !.load = "none",
                 !.inserted = FALSE,
                 !.clean = TRUE,
                 !.previous = [settings |-> call.settings,
                               persisted |-> call.persisted,
                               at_stop |-> call.knowledge,
                               inserted |-> call.inserted,
                               clean |-> call.clean]]
    /\ UNCHANGED <<settings, regionVars, storeVars, graphVars, lockVars,
                   globalVars, ctlVars, localVars, tui_pc, ghostVars>>

\* DeserializeKnowledge, the write index with its bound, the ring size
\* with its check against max_history_count, and the entries.
CheckpointReadHistory ==
    /\ call.op = "main"
    /\ call.stage = "read_history"
    /\ LET file == call.file.words
           k == call.loaded_knowledge
           read_history_index == ReadWord(file, call.pos)
           index_ok == /\ read_history_index.ok
                       /\ read_history_index.value
                              < k.settings.max_history_count
           history_size == IF index_ok
                           THEN ReadWord(file, read_history_index.next)
                           ELSE ReadFailed
           size_ok == /\ history_size.ok
                      /\ history_size.value = k.settings.max_history_count
           entries == IF size_ok
                      THEN ReadHistory(file, history_size.next, k.history, 1,
                                       history_size.value)
                      ELSE [ok |-> FALSE, value |-> k.history, next |-> 0]
       IN call' = [call EXCEPT
              !.stage = IF entries.ok THEN "read_parameters" ELSE "threw",
              !.pos = entries.next,
              !.loaded_knowledge =
                  [k EXCEPT !.history_index =
                                IF index_ok THEN read_history_index.value
                                ELSE @,
                            !.history = entries.value]]
    /\ UNCHANGED <<settings, regionVars, storeVars, graphVars, lockVars,
                   globalVars, ctlVars, localVars, tui_pc, ghostVars>>

\* DeserializeKnowledge, embedding_dim and the Node2Vec parameters, set
\* together once all are read, with a zero embedding of that dimension.
CheckpointReadParameters ==
    /\ call.op = "main"
    /\ call.stage = "read_parameters"
    /\ LET k == call.loaded_knowledge
           read == ReadWords(call.file.words, call.pos, 7)
       IN call' = [call EXCEPT
              !.stage = IF read.ok THEN "read_graph" ELSE "threw",
              !.pos = read.next,
              !.loaded_knowledge =
                  IF read.ok
                  THEN [k EXCEPT
                          !.embedding_dim = read.value[1],
                          !.parameters =
                              [p |-> read.value[2], q |-> read.value[3],
                               walk_length |-> read.value[4],
                               num_walks |-> read.value[5],
                               window_size |-> read.value[6],
                               learning_rate |-> read.value[7]],
                          !.ZERO_EMBEDDING =
                              [d \in 1..read.value[1] |-> 0]]
                  ELSE k]
    /\ UNCHANGED <<settings, regionVars, storeVars, graphVars, lockVars,
                   globalVars, ctlVars, localVars, tui_pc, ghostVars>>

\* DeserializeKnowledge, the adjacency map: cleared, then filled entry by
\* entry.
CheckpointReadGraph ==
    /\ call.op = "main"
    /\ call.stage = "read_graph"
    /\ LET k == call.loaded_knowledge
           num_nodes == ReadWord(call.file.words, call.pos)
           entries == IF num_nodes.ok
                      THEN ReadAdjacency(call.file.words, num_nodes.next,
                                         << >>, num_nodes.value)
                      ELSE [ok |-> FALSE, value |-> k.graph, next |-> 0]
       IN call' = [call EXCEPT
              !.stage = IF entries.ok THEN "read_embeddings" ELSE "threw",
              !.pos = entries.next,
              !.loaded_knowledge = [k EXCEPT !.graph = entries.value]]
    /\ UNCHANGED <<settings, regionVars, storeVars, graphVars, lockVars,
                   globalVars, ctlVars, localVars, tui_pc, ghostVars>>

\* DeserializeKnowledge, the embedding table and the zero embedding, each
\* checked against embedding_dim.
CheckpointReadEmbeddings ==
    /\ call.op = "main"
    /\ call.stage = "read_embeddings"
    /\ LET k == call.loaded_knowledge
           num_embeddings == ReadWord(call.file.words, call.pos)
           entries == IF num_embeddings.ok
                      THEN ReadEmbeddingTable(call.file.words,
                                              num_embeddings.next, << >>,
                                              num_embeddings.value,
                                              k.embedding_dim)
                      ELSE [ok |-> FALSE, value |-> k.embeddings, next |-> 0]
           zero_emb == IF entries.ok
                       THEN ReadVector(call.file.words, entries.next)
                       ELSE ReadFailed
           zero_ok == zero_emb.ok /\ Len(zero_emb.value) = k.embedding_dim
       IN call' = [call EXCEPT
              !.stage = IF zero_ok THEN "loaded" ELSE "threw",
              !.pos = zero_emb.next,
              !.loaded_knowledge =
                  [k EXCEPT !.embeddings = entries.value,
                            !.ZERO_EMBEDDING =
                                IF zero_ok THEN zero_emb.value ELSE @]]
    /\ UNCHANGED <<settings, regionVars, storeVars, graphVars, lockVars,
                   globalVars, ctlVars, localVars, tui_pc, ghostVars>>

\* A store that keeps what DeserializeKnowledge had read when it threw.
PartlyLoadedStore(s, loaded) ==
    [loaded EXCEPT !.settings = s]

\* main, the catch (...): knowledge_ptr = new FuzzerKnowledge(settings)
CaughtStore(s, loaded) == FreshKnowledge(s)

\* main, lines 91-101, after DeserializeKnowledge has returned: the store
\* of the current settings takes the loaded ring, index and graph data
\* when the target programs agree, and stays as constructed otherwise.
AdoptedStore(s, loaded) ==
    IF loaded.settings.target_program = s.target_program
    THEN [FreshKnowledge(s) EXCEPT
            !.history = loaded.history,
            !.history_index = loaded.history_index,
            !.graph = loaded.graph,
            !.embeddings = loaded.embeddings,
            !.embedding_dim = loaded.embedding_dim,
            !.parameters = loaded.parameters,
            !.ZERO_EMBEDDING = loaded.ZERO_EMBEDDING]
    ELSE FreshKnowledge(s)

MainAdopt ==
    /\ call.op = "main"
    /\ call.stage = "loaded"
    /\ call' = [call EXCEPT
                  !.stage = "running",
                  !.fresh_start = TRUE,
                  !.load = IF call.loaded_knowledge.settings.target_program
                                = call.settings.target_program
                           THEN "adopted" ELSE "other_target",
                  !.knowledge = AdoptedStore(call.settings,
                                             call.loaded_knowledge)]
    /\ UNCHANGED <<settings, regionVars, storeVars, graphVars, lockVars,
                   globalVars, ctlVars, localVars, tui_pc, ghostVars>>

MainCatch ==
    /\ call.op = "main"
    /\ call.stage = "threw"
    /\ call' = [call EXCEPT
                  !.stage = "running",
                  !.fresh_start = TRUE,
                  !.load = "failed",
                  !.knowledge = CaughtStore(call.settings,
                                            call.loaded_knowledge)]
    /\ UNCHANGED <<settings, regionVars, storeVars, graphVars, lockVars,
                   globalVars, ctlVars, localVars, tui_pc, ghostVars>>

MainNext ==
    \/ CheckpointInsert
    \/ CheckpointStop
    \/ CheckpointDamage
    \/ CheckpointOpen
    \/ CheckpointReadHistory
    \/ CheckpointReadParameters
    \/ CheckpointReadGraph
    \/ CheckpointReadEmbeddings
    \/ MainAdopt
    \/ MainCatch

MainSpec == MainInit /\ [][MainNext]_vars

\* ------------------------------------------ ComputeBehavioralGradient
\* The Jacobian of step 2 and the chain rule of step 3 of
\* GenerateNewInputWithGradientDescent.  Distances are whole numbers of the
\* embedding unit; a quotient dy / dx is kept exactly, as a fraction with a
\* positive denominator.

GradientBytes == {0, 1, MaxByte}
GradientTraces == {<<1>>, <<1, 2>>}

\* dL/dy[i] is loss / dy[i] or loss, never negative.
LossGradientValues == {0, 1, 3}

\* a / b for b # 0
Ratio(a, b) ==
    IF b > 0 THEN [num |-> a, den |-> b] ELSE [num |-> 0 - a, den |-> 0 - b]

RatioTimes(r, k) == [num |-> r.num * k, den |-> r.den]

RatioPlus(r, s) ==
    [num |-> r.num * s.den + s.num * r.den, den |-> r.den * s.den]

RatioEqual(r, s) == r.num * s.den = s.num * r.den

\* ExploredGraph::EmbeddingDistance on two embeddings of embedding_dim
\* components.
EmbeddingDistance(emb1, emb2) ==
    ISqrt(SumSeq([d \in 1..EmbeddingDim |->
                     (emb2[d] - emb1[d]) * (emb2[d] - emb1[d])]))

\* dy[i]: GetNodeDistance when both traces have position i,
\* GetNodeDistanceWithOrigin for the one that has it otherwise.
TraceDistances(emb, y1, y2) ==
    [i \in 1..Max(Len(y1), Len(y2)) |->
        IF i <= Len(y1) /\ i <= Len(y2)
        THEN EmbeddingDistance(emb[y1[i]], emb[y2[i]])
        ELSE IF i <= Len(y1)
        THEN EmbeddingDistance(emb[y1[i]], [d \in 1..EmbeddingDim |-> 0])
        ELSE EmbeddingDistance(emb[y2[i]], [d \in 1..EmbeddingDim |-> 0])]

\* dx[i] = b - a, a the byte of x1 and b the byte of x2, 0 when missing.
InputDifferences(x1, x2) ==
    [j \in 1..Max(Len(x1), Len(x2)) |-> ByteAt(x2, j) - ByteAt(x1, j)]

\* A Jacobian without the test of dx[j]: the column of an unchanged byte
\* gets the distances themselves.
JacobianWithoutZeroTest(dy, dx) ==
    [i \in 1..Len(dy) |->
        [j \in 1..Len(dx) |->
            IF dx[j] # 0 THEN Ratio(dy[i], dx[j]) ELSE Ratio(dy[i], 1)]]

\* grad[i][j] = dy[i] / dx[j] when dx[j] != 0.0, else 0.0
JacobianOf(dy, dx) ==
    [i \in 1..Len(dy) |->
        [j \in 1..Len(dx) |->
            IF dx[j] # 0 THEN Ratio(dy[i], dx[j]) ELSE Ratio(0, 1)]]

\* sum over i of jacobian[i][j] * dL_dy[i], from row i onwards
RECURSIVE ChainFrom(_, _, _, _)
ChainFrom(jacobian, dL_dy, j, i) ==
    IF i > Len(jacobian) THEN Ratio(0, 1)
    ELSE RatioPlus(RatioTimes(jacobian[i][j], dL_dy[i]),
                   ChainFrom(jacobian, dL_dy, j, i + 1))

\* The calls followed: Run hands over two executions whose inputs it has
\* resized to the thread's input size; step 1 has absorbed both traces and
\* left dL/dy, one entry per position of the longer trace.
GradientCalls ==
    {[op |-> "ComputeBehavioralGradient", stage |-> "entry",
      forbidden_execution |-> [input |-> xx[1], trace |-> yy[1]],
      current_execution |-> [input |-> xx[2], trace |-> yy[2]],
      dL_dy |-> yy[3],
      graph |-> AbsorbBoth(<< >>, << >>, yy[2], yy[1]).graph,
      embeddings |-> [n \in {yy[1][k] : k \in 1..Len(yy[1])}
                             \cup {yy[2][k] : k \in 1..Len(yy[2])} |->
                         StoredEmbedding(n)],
      dy |-> << >>, dx |-> << >>, jacobian |-> << >>, dL_dx |-> << >>] :
        xx \in UNION {[1..n -> GradientBytes] \X [1..n -> GradientBytes] :
                      n \in 1..MaxInputDim},
        yy \in UNION {{<<f, c, g>> :
                         g \in [1..Max(Len(f), Len(c)) -> LossGradientValues]} :
                      f \in GradientTraces, c \in GradientTraces}}

GradientInit ==
    /\ settings = [thread_count |-> 1,
                   max_history_count |-> MaxHistoryCount,
                   input_size |-> [min |-> 1, max |-> 1, step |-> 1],
                   target |-> [reads |-> TRUE, hangs |-> FALSE]]
    /\ FreshStore
    /\ FreshThreads
    /\ call \in GradientCalls

\* ComputeBehavioralGradient, lines 70-72: both traces are absorbed, fe1's
\* first, and UpdateEmbeddings leaves every node some trained embedding.
GradientTrain ==
    /\ call.op = "ComputeBehavioralGradient"
    /\ call.stage = "entry"
    /\ LET r == AbsorbBoth(call.graph, call.embeddings,
                           call.forbidden_execution.trace,
                           call.current_execution.trace)
       IN \E e \in [DOMAIN r.embeddings -> EmbeddingValues] :
             call' = [call EXCEPT !.stage = "trained",
                                  !.graph = r.graph,
                                  !.embeddings = e]
    /\ UNCHANGED <<settings, regionVars, storeVars, graphVars, lockVars,
                   globalVars, ctlVars, localVars, tui_pc, ghostVars>>

\* ComputeBehavioralGradient, lines 74-128, as the mutator calls it: fe1 is
\* the forbidden execution and fe2 the current one.
GradientJacobian ==
    /\ call.op = "ComputeBehavioralGradient"
    /\ call.stage = "trained"
    /\ LET dy == TraceDistances(call.embeddings,
                                call.forbidden_execution.trace,
                                call.current_execution.trace)
           dx == InputDifferences(call.forbidden_execution.input,
                                  call.current_execution.input)
       IN call' = [call EXCEPT !.stage = "jacobian", !.dy = dy, !.dx = dx,
                               !.jacobian = JacobianOf(dy, dx)]
    /\ UNCHANGED <<settings, regionVars, storeVars, graphVars, lockVars,
                   globalVars, ctlVars, localVars, tui_pc, ghostVars>>

\* GenerateNewInputWithGradientDescent, lines 799-845: the checks on the
\* shapes, then dL_dx = jacobian^T * dL_dy.
GradientChain ==
    /\ call.op = "ComputeBehavioralGradient"
    /\ call.stage = "jacobian"
    /\ IF \/ call.jacobian = << >>
          \/ call.jacobian[1] = << >>
          \/ call.dL_dy = << >>
          \/ Len(call.jacobian) # Len(call.dL_dy)
       THEN call' = [call EXCEPT !.stage = "threw"]
       ELSE call' = [call EXCEPT
                        !.stage = "done",
                        !.dL_dx = [j \in 1..Len(call.jacobian[1]) |->
                                      ChainFrom(call.jacobian, call.dL_dy,
                                                j, 1)]]
    /\ UNCHANGED <<settings, regionVars, storeVars, graphVars, lockVars,
                   globalVars, ctlVars, localVars, tui_pc, ghostVars>>

GradientNext ==
    \/ GradientTrain
    \/ GradientJacobian
    \/ GradientChain

GradientSpec == GradientInit /\ [][GradientNext]_vars

\* ------------------------------- UpdateGraphFromTrace, with the embeddings
\* The absorb of one trace into a graph that already holds earlier traces,
\* with the embeddings as vectors; fresh[n] is the vector the generator
\* draws when node n has no embedding yet.

AbsorbTraces == {<< >>, <<1>>, <<1, 1>>, <<1, 2>>, <<2, 1, 3>>, <<3, 3, 1>>}

TraceNodes(trace) == {trace[k] : k \in 1..Len(trace)}

\* An absorb that draws a new embedding for every node of the trace.
RedrawnEmbeddings(e, trace, fresh) ==
    [n \in DOMAIN e \cup TraceNodes(trace) |->
        IF n \in TraceNodes(trace) THEN fresh[n] ELSE e[n]]

\* if (!embeddings.count(node)) embeddings[node] = emb, over the trace
AbsorbedEmbeddings(e, trace, fresh) ==
    [n \in DOMAIN e \cup TraceNodes(trace) |->
        IF n \in DOMAIN e THEN e[n] ELSE fresh[n]]

\* The calls followed: the graph holds one earlier trace, its nodes carry
\* any of the embedding values, and one more trace arrives.
AbsorbCalls ==
    {[op |-> "UpdateGraphFromTrace", stage |-> "entry", trace |-> t,
      graph |-> AbsorbedGraph(<< >>, pe[1]), embeddings |-> pe[2],
      old_graph |-> << >>, old_embeddings |-> << >>,
      first_graph |-> << >>, first_embeddings |-> << >>] :
        t \in AbsorbTraces,
        pe \in UNION {{<<p, e>> : e \in [TraceNodes(p) -> EmbeddingValues]} :
                      p \in PriorTraces}}

AbsorbInit ==
    /\ settings = [thread_count |-> 1,
                   max_history_count |-> MaxHistoryCount,
                   input_size |-> [min |-> 1, max |-> 1, step |-> 1],
                   target |-> [reads |-> TRUE, hangs |-> FALSE]]
    /\ FreshStore
    /\ FreshThreads
    /\ call \in AbsorbCalls

\* ExploredGraph::UpdateGraphFromTrace on the call's graph and embeddings.
AbsorbInto(c, fresh) ==
    [c EXCEPT !.graph = UpdateGraphFromTrace(c.graph, << >>, c.trace).graph,
              !.embeddings = AbsorbedEmbeddings(c.embeddings, c.trace, fresh)]

\* The first absorb of the trace.
AbsorbTrace ==
    /\ call.op = "UpdateGraphFromTrace"
    /\ call.stage = "entry"
    /\ \E fresh \in [TraceNodes(call.trace) -> EmbeddingValues] :
          call' = [AbsorbInto(call, fresh) EXCEPT
                      !.stage = "absorbed",
                      !.old_graph = call.graph,
                      !.old_embeddings = call.embeddings]
    /\ UNCHANGED <<settings, regionVars, storeVars, graphVars, lockVars,
                   globalVars, ctlVars, localVars, tui_pc, ghostVars>>

\* The same trace absorbed once more, with no training in between.
AbsorbAgain ==
    /\ call.op = "UpdateGraphFromTrace"
    /\ call.stage = "absorbed"
    /\ \E fresh \in [TraceNodes(call.trace) -> EmbeddingValues] :
          call' = [AbsorbInto(call, fresh) EXCEPT
                      !.stage = "again",
                      !.first_graph = call.graph,
                      !.first_embeddings = call.embeddings]
    /\ UNCHANGED <<settings, regionVars, storeVars, graphVars, lockVars,
                   globalVars, ctlVars, localVars, tui_pc, ghostVars>>

AbsorbNext ==
    \/ AbsorbTrace
    \/ AbsorbAgain

AbsorbSpec == AbsorbInit /\ [][AbsorbNext]_vars

\* ------------------------------------ FuzzerThread::FuzzerThread, the size
\* The constructor's target size for any settings the command line accepts
\* (settings.cc checks none of the three lengths) and any thread id.

\* u32 values: the small ones, the half of the range and its top.
U32Samples == {0, 1, 2, U32Modulus \div 2, U32Modulus - 1}

ThreadIds == 0..3

ClampInit ==
    /\ \E lo \in U32Samples, hi \in U32Samples, st \in U32Samples,
          tid \in ThreadIds :
          /\ lo <= hi
          /\ settings = [thread_count |-> tid + 1,
                         max_history_count |-> MaxHistoryCount,
                         input_size |-> [min |-> lo, max |-> hi, step |-> st],
                         target |-> [reads |-> TRUE, hangs |-> FALSE]]
          /\ call = [op |-> "FuzzerThread", stage |-> "entry",
                     thread_id |-> tid, thread_input_size |-> 0]
    /\ FreshStore
    /\ FreshThreads

\* FuzzerThread::FuzzerThread, lines 233-240.
ClampConstruct ==
    /\ call.op = "FuzzerThread"
    /\ call.stage = "entry"
    /\ call' = [call EXCEPT !.stage = "constructed",
                            !.thread_input_size =
                                ThreadInputSize(call.thread_id)]
    /\ UNCHANGED <<settings, regionVars, storeVars, graphVars, lockVars,
                   globalVars, ctlVars, localVars, tui_pc, ghostVars>>

ClampNext == ClampConstruct

ClampSpec == ClampInit /\ [][ClampNext]_vars

\* --------------------------- Run: the sizes of the exploration speeds
\* Run from its start for one worker: the vector is empty when the thread
\* is constructed, the latest stored input and the forbidden one have any
\* stored size, and the loop's tail is the one followed above.

\* Sizes of the inputs other workers have stored.
StoredSizes == 1..(MaxInputDim + 1)

\* if (exploration_speed.size() != thread_input_size)
\*     InitializeExplorationSpeed(thread_input_size)
EnsureExplorationSpeed(eta, input_size) ==
    IF Len(eta) # input_size
    THEN InitializeExplorationSpeed(eta, input_size) ELSE eta

\* if (x.size() != thread_input_size) resize and fill the new tail
EnsureInputSize(x, n) ==
    IF Len(x) # n
    THEN {y \in [1..n -> SpeedBytes] :
             \A k \in 1..Min(Len(x), n) : y[k] = x[k]}
    ELSE {x}

\* The size of an input of size k after that resize.
EnsuredSize(k, n) == IF k # n THEN n ELSE k

EtaInit ==
    /\ \E n \in 0..MaxInputDim :
          settings = [thread_count |-> 1,
                      max_history_count |-> MaxHistoryCount,
                      input_size |-> [min |-> n, max |-> n, step |-> 1],
                      target |-> [reads |-> TRUE, hangs |-> FALSE]]
    /\ FreshStore
    /\ FreshThreads
    /\ \E x \in UNION {[1..k -> SpeedBytes] : k \in StoredSizes} :
          call = [op |-> "Run", stage |-> "begin", latest_input |-> x,
                  current_input |-> << >>, new_input |-> << >>,
                  was_added |-> FALSE, speed_before |-> << >>,
                  exploration_speed |-> << >>, thaws |-> 0,
                  max_dim_x |-> 0, speeds_at_call |-> 0, error |-> "none"]

\* Run, lines 578-609: the speeds are sized to the thread's size and the
\* latest stored input becomes the current one, resized; the snapshot it
\* came from is not read again.
EtaBegin ==
    /\ call.op = "Run"
    /\ call.stage = "begin"
    /\ \E x \in EnsureInputSize(call.latest_input, ThreadInputSize(0)) :
          call' = [call EXCEPT
                      !.stage = "loop",
                      !.latest_input = << >>,
                      !.current_input = x,
                      !.exploration_speed =
                          EnsureExplorationSpeed(@, ThreadInputSize(0)),
                      !.speed_before =
                          EnsureExplorationSpeed(call.exploration_speed,
                                                 ThreadInputSize(0))]
    /\ UNCHANGED <<settings, regionVars, storeVars, graphVars, lockVars,
                   globalVars, ctlVars, localVars, tui_pc, ghostVars>>

\* Run, lines 646-694, and the mutator's checks at 799 and 853: the
\* forbidden input, of any stored size (its bytes do not matter here), and
\* the current one are resized, the mutator takes max_dim_x from them and
\* checks the speeds against it;
\* its output keeps the frozen bytes, and the speeds are sized again.
EtaMutate ==
    /\ call.op = "Run"
    /\ call.stage = "loop"
    /\ \E stored \in StoredSizes :
       \E x_c \in EnsureInputSize(call.current_input, ThreadInputSize(0)) :
          LET max_dim_x == Max(EnsuredSize(stored, ThreadInputSize(0)),
                               Len(x_c))
              seen == [call EXCEPT
                          !.max_dim_x = max_dim_x,
                          !.speeds_at_call = Len(call.exploration_speed)]
          IN IF max_dim_x = 0
             THEN call' = [seen EXCEPT
                              !.stage = "threw",
                              !.error = "jacobian or dL/dy is empty"]
             ELSE IF Len(call.exploration_speed) # max_dim_x
             THEN call' = [seen EXCEPT
                              !.stage = "threw",
                              !.error = "exploration_speed size does not match input size"]
             ELSE \E y \in [1..max_dim_x -> SpeedBytes] :
                  \E z \in EnsureInputSize(y, ThreadInputSize(0)) :
                  \E added \in BOOLEAN :
                     /\ \A j \in 1..max_dim_x :
                           Frozen(call.exploration_speed[j])
                           => y[j] = ByteAt(x_c, j)
                     /\ call' = [seen EXCEPT
                                    !.stage = "executed",
                                    !.current_input = x_c,
                                    !.new_input = z,
                                    !.was_added = added,
                                    !.exploration_speed =
                                        EnsureExplorationSpeed(
                                            @, ThreadInputSize(0)),
                                    !.speed_before =
                                        EnsureExplorationSpeed(
                                            call.exploration_speed,
                                            ThreadInputSize(0))]
    /\ UNCHANGED <<settings, regionVars, storeVars, graphVars, lockVars,
                   globalVars, ctlVars, localVars, tui_pc, ghostVars>>

EtaNext ==
    \/ EtaBegin
    \/ EtaMutate
    \/ SpeedFreeze
    \/ SpeedThaw

EtaSpec == EtaInit /\ [][EtaNext]_vars

\* ------------------------------ AddExecutionIfDifferent, call after call
\* The store of one process from its construction, under any capacity, and
\* the calls of try-insert one at a time (each is made under
\* knowledge_mutex from the scan to the return).

RingExecutions ==
    {[trace |-> t, input |-> <<0>>] :
        t \in {<<1>>, <<1, 2>>, <<2>>, <<2, 1>>, <<3>>}}
       \cup {[trace |-> << >>, input |-> <<0>>]}

\* FuzzerKnowledge::FuzzerKnowledge: history.resize(max_history_count),
\* history_index 0, an empty graph; no checkpoint file yet.
ConstructedStore ==
    [history |-> [i \in 0..(Capacity - 1) |-> EmptyExecution],
     history_index |-> 0, graph |-> << >>, embeddings |-> << >>,
     checkpoint |-> "absent"]

\* Lines 55-61: the write into the ring, the index, the absorb and the
\* training (which changes no key and no edge).
WrittenStore(s, e) ==
    LET r == UpdateGraphFromTrace(s.graph, s.embeddings, e.trace)
    IN [s EXCEPT !.history = StoreExecution(@, s.history_index, e),
                 !.history_index = (@ + 1) % Capacity,
                 !.graph = r.graph,
                 !.embeddings = r.embeddings]

\* A try-insert that writes the slot before it looks for the trace.
InsertBeforeScan(s, e) ==
    IF HasEqualTrace(s.history, e.trace)
    THEN {[store |-> WrittenStore(s, e), result |-> "not_added"]}
    ELSE {[store |-> [WrittenStore(s, e) EXCEPT !.checkpoint = "written"],
           result |-> "added"]}

\* AddExecutionIfDifferent: the store it leaves and how it ends.  The
\* checkpoint is written, or SerializeKnowledge throws with the file not
\* opened or cut short.
AddExecutionIfDifferent(s, e) ==
    IF ContractError(e) # ""
    THEN {[store |-> s, result |-> "threw"]}
    ELSE IF HasEqualTrace(s.history, e.trace)
    THEN {[store |-> s, result |-> "not_added"]}
    ELSE {[store |-> [WrittenStore(s, e) EXCEPT !.checkpoint = "written"],
           result |-> "added"],
          [store |-> WrittenStore(s, e), result |-> "threw"],
          [store |-> [WrittenStore(s, e) EXCEPT !.checkpoint = "truncated"],
           result |-> "threw"]}

RingInit ==
    /\ \E c \in 1..MaxHistoryCount :
          settings = [thread_count |-> 1,
                      max_history_count |-> c,
                      input_size |-> [min |-> 1, max |-> 1, step |-> 1],
                      target |-> [reads |-> TRUE, hangs |-> FALSE]]
    /\ FreshStore
    /\ FreshThreads
    /\ call = [op |-> "AddExecutionIfDifferent", store |-> ConstructedStore,
               before |-> ConstructedStore,
               execution |-> EmptyExecution, result |-> "none",
               added |-> << >>, written |-> << >>]

\* One call.  added lists the executions of the calls that returned true,
\* written those of the calls that reached the write.
RingInsert ==
    /\ call.op = "AddExecutionIfDifferent"
    /\ Len(call.written) < MaxInserts
    /\ \E e \in RingExecutions :
       \E o \in AddExecutionIfDifferent(call.store, e) :
          call' = [call EXCEPT
                      !.store = o.store,
                      !.before = call.store,
                      !.execution = e,
                      !.result = o.result,
                      !.added = IF o.result = "added"
                                THEN Append(@, e) ELSE @,
                      !.written = IF ContractError(e) = ""
                                     /\ o.result # "not_added"
                                  THEN Append(@, e) ELSE @]
    /\ UNCHANGED <<settings, regionVars, storeVars, graphVars, lockVars,
                   globalVars, ctlVars, localVars, tui_pc, ghostVars>>

RingNext == RingInsert

RingSpec == RingInit /\ [][RingNext]_vars

\* ---------------------------------------------- GenerateBiasedRandomWalk
\* One walk of UpdateEmbeddings, step by step.  The weights 1/p, 1 and 1/q
\* are whole numbers of 1 / WeightOne; the draw of
\* uniform_real_distribution(0.0, 1.0) is r / RandSteps for any r from 0 to
\* RandSteps - 1 (the range of the distribution is [0, 1)).

\* 1/p and 1/q: zero (p infinite), a half, one and two.
InverseBiases == {0, WeightOne \div 2, WeightOne, 2 * WeightOne}

\* The traces the graph has absorbed before the walk.
WalkTraces == {<<1, 2, 1>>, <<2, 3>>, <<1, 1>>, <<3>>}

WalkGraphs ==
    {AbsorbedGraph(AbsorbedGraph(<< >>, t1), t2) :
        t1 \in WalkTraces, t2 \in WalkTraces}

\* ExploredGraph::GetTransitionProbability
GetTransitionProbability(g, inv_p, inv_q, prev_node, curr_node, next_node) ==
    IF next_node = prev_node THEN inv_p
    ELSE IF Contains(g[prev_node], next_node) THEN WeightOne
    ELSE inv_q

\* cumsum after position j of the probabilities probs[k] / total
RECURSIVE CumulativeSum(_, _)
CumulativeSum(probs, j) ==
    IF j = 0 THEN 0 ELSE probs[j] + CumulativeSum(probs, j - 1)

\* Lines 101-135: the probabilities are the weights over their sum, or
\* uniform when the sum is zero; the next node is the first neighbour j
\* with rand_val <= cumsum, and curr_neighbors[0] when there is none.
SampledNeighbor(curr_neighbors, weights, r) ==
    LET sum_probs == CumulativeSum(weights, Len(weights))
        probs == IF sum_probs > 0 THEN weights
                 ELSE [j \in 1..Len(weights) |-> 1]
        total == IF sum_probs > 0 THEN sum_probs ELSE Len(weights)
        hits == {j \in 1..Len(curr_neighbors) :
                    r * total <= CumulativeSum(probs, j) * RandSteps}
    IN IF hits = {} THEN curr_neighbors[1]
       ELSE curr_neighbors[CHOOSE j \in hits : \A k \in hits : j <= k]

\* The calls UpdateEmbeddings makes: a start node with a neighbour, under
\* any walk_length and biases the graph may be constructed or loaded with.
WalkCalls ==
    {[op |-> "GenerateBiasedRandomWalk", stage |-> "entry",
      graph |-> gs[1], graph_before |-> gs[1], start_node |-> gs[2],
      walk_length |-> len, inv_p |-> ip, inv_q |-> iq,
      walk |-> << >>, prev_node |-> 0, curr_node |-> 0, i |-> 0,
      weights |-> << >>] :
        gs \in UNION {{<<g, n>> : n \in {m \in DOMAIN g : g[m] # << >>}} :
                      g \in WalkGraphs},
        len \in 0..MaxWalkLength, ip \in InverseBiases,
        iq \in InverseBiases}

WalkInit ==
    /\ settings = [thread_count |-> 1,
                   max_history_count |-> MaxHistoryCount,
                   input_size |-> [min |-> 1, max |-> 1, step |-> 1],
                   target |-> [reads |-> TRUE, hangs |-> FALSE]]
    /\ FreshStore
    /\ FreshThreads
    /\ call \in WalkCalls

\* graph[node]: operator[] of the map makes the key when it is missing.
WithKey(g, node) == IF node \in DOMAIN g THEN g ELSE g @@ (node :> << >>)

\* Lines 70-94: nothing for a start node without neighbours, the start
\* node alone when walk_length is 1, else a second node drawn uniformly.
WalkBegin ==
    /\ call.op = "GenerateBiasedRandomWalk"
    /\ call.stage = "entry"
    /\ IF call.start_node \notin DOMAIN call.graph
          \/ WithKey(call.graph, call.start_node)[call.start_node] = << >>
       THEN call' = [call EXCEPT !.stage = "returned"]
       ELSE IF call.walk_length = 1
       THEN call' = [call EXCEPT !.stage = "returned",
                                 !.walk = <<call.start_node>>]
       ELSE \E k \in 1..Len(call.graph[call.start_node]) :
               call' = [call EXCEPT
                           !.stage = "loop",
                           !.walk = <<call.start_node,
                                      call.graph[call.start_node][k]>>,
                           !.prev_node = call.start_node,
                           !.curr_node = call.graph[call.start_node][k],
                           !.i = 2]
    /\ UNCHANGED <<settings, regionVars, storeVars, graphVars, lockVars,
                   globalVars, ctlVars, localVars, tui_pc, ghostVars>>

\* Lines 97-141: one pass of the loop, or its end.
WalkStep ==
    /\ call.op = "GenerateBiasedRandomWalk"
    /\ call.stage = "loop"
    /\ IF ~(call.i < call.walk_length)
       THEN call' = [call EXCEPT !.stage = "returned"]
       ELSE LET g == WithKey(call.graph, call.curr_node)
                curr_neighbors == g[call.curr_node]
                weights ==
                    [j \in 1..Len(curr_neighbors) |->
                        GetTransitionProbability(g, call.inv_p, call.inv_q,
                                                 call.prev_node,
                                                 call.curr_node,
                                                 curr_neighbors[j])]
            IN IF curr_neighbors = << >>
               THEN call' = [call EXCEPT !.stage = "returned", !.graph = g]
               ELSE \E r \in 0..(RandSteps - 1) :
                       LET next_node ==
                               SampledNeighbor(curr_neighbors, weights, r)
                       IN call' = [call EXCEPT
                                      !.graph = g,
                                      !.weights = weights,
                                      !.prev_node = call.curr_node,
                                      !.curr_node = next_node,
                                      !.walk = Append(@, next_node),
                                      !.i = @ + 1]
    /\ UNCHANGED <<settings, regionVars, storeVars, graphVars, lockVars,
                   globalVars, ctlVars, localVars, tui_pc, ghostVars>>

WalkNext ==
    \/ WalkBegin
    \/ WalkStep

WalkSpec == WalkInit /\ [][WalkNext]_vars

\* ---------------------------------------------------- the lock protocol
\* The threads of a run with every lock_guard as two steps, the lock and
\* the unlock at the end of its scope, and nothing else of the data: which
\* way a thread goes at a branch is any of the ways of the code.  A thread
\* whose step takes a mutex held by another thread waits where it is.

\* The calls into the shared graph that one mutation makes outside
\* knowledge_mutex, each under its own lock_guard on graph_mutex.
LockCalls ==
    [op |-> "Locks",
     copy_mutex |-> [w \in WorkerIds |-> NoThread],
     calls |-> [w \in WorkerIds |-> 0]]

LockInit ==
    /\ settings = [thread_count |-> 2,
                   max_history_count |-> MaxHistoryCount,
                   input_size |-> [min |-> 1, max |-> 1, step |-> 1],
                   target |-> [reads |-> TRUE, hangs |-> FALSE]]
    /\ FreshStore
    /\ FreshThreads
    /\ call = LockCalls

\* The top of the loop a worker is in.
LockLoopTop(w) == IF phase[w] = "steady" THEN "LK_Top" ELSE "IR_Loop"

\* fuzzer.cc:420 and 620-626: GetHistorySnapshot() locks knowledge_mutex;
\* Run leaves its loop on the stop flag first.
LockSnapshot(w) ==
    /\ pc[w] \in {"IR_Loop", "LK_Top"}
    /\ IF pc[w] = "LK_Top" /\ g_should_stop_fuzzing
       THEN /\ pc' = [pc EXCEPT ![w] = "Done"]
            /\ UNCHANGED knowledge_mutex
       ELSE /\ knowledge_mutex = NoThread
            /\ knowledge_mutex' = w
            /\ pc' = [pc EXCEPT ![w] = "LK_Snapshot"]
    /\ UNCHANGED <<settings, unitVars, storeVars, graphVars, graph_mutex,
                   globalVars, phase, error_message, localVars, tui_pc,
                   ghostVars>>

\* knowledge.cc:76-79: the copy is returned and the lock released.
\* InitializationRun goes on to ExecOnce or, with two executions stored,
\* returns to Run; Run goes on to the mutator.
LockSnapshotEnd(w) ==
    /\ pc[w] = "LK_Snapshot"
    /\ knowledge_mutex' = NoThread
    /\ IF phase[w] = "steady"
       THEN /\ pc' = [pc EXCEPT ![w] = "LK_Graph"]
            /\ call' = [call EXCEPT !.calls[w] = GraphCalls]
            /\ UNCHANGED phase
       ELSE \/ /\ pc' = [pc EXCEPT ![w] = "LK_Exec"]
               /\ UNCHANGED <<phase, call>>
            \/ /\ pc' = [pc EXCEPT ![w] = "LK_Top"]
               /\ phase' = [phase EXCEPT ![w] = "steady"]
               /\ UNCHANGED call
    /\ UNCHANGED <<settings, regionVars, storeVars, graphVars, graph_mutex,
                   globalVars, error_message, localVars, tui_pc, ghostVars>>

\* graph.cc:13, 313 and graph.hh:70: UpdateGraphFromTrace, MeanEmbedding
\* and GetNodeEmbedding lock graph_mutex.
LockGraphCall(w) ==
    /\ pc[w] = "LK_Graph"
    /\ graph_mutex = NoThread
    /\ graph_mutex' = w
    /\ pc' = [pc EXCEPT ![w] = "LK_GraphHeld"]
    /\ UNCHANGED <<settings, unitVars, storeVars, graphVars, knowledge_mutex,
                   globalVars, phase, error_message, localVars, tui_pc,
                   ghostVars>>

\* A graph call that returns with its lock still held.
KeepGraphLock(w) ==
    /\ pc[w] = "LK_GraphHeld"
    /\ call' = [call EXCEPT !.calls[w] = @ - 1]
    /\ pc' = [pc EXCEPT ![w] = IF call.calls[w] = 1 THEN "LK_Exec"
                               ELSE "LK_Graph"]
    /\ UNCHANGED <<settings, regionVars, storeVars, graphVars, lockVars,
                   globalVars, phase, error_message, localVars, tui_pc,
                   ghostVars>>

\* The end of the graph call: the lock_guard releases graph_mutex; after
\* the last call of the mutator comes ExecOnce.
LockGraphCallEnd(w) ==
    /\ pc[w] = "LK_GraphHeld"
    /\ graph_mutex' = NoThread
    /\ call' = [call EXCEPT !.calls[w] = @ - 1]
    /\ pc' = [pc EXCEPT ![w] = IF call.calls[w] = 1 THEN "LK_Exec"
                               ELSE "LK_Graph"]
    /\ UNCHANGED <<settings, regionVars, storeVars, graphVars,
                   knowledge_mutex, globalVars, phase, error_message,
                   localVars, tui_pc, ghostVars>>

\* fuzzer.cc:505 and 703: the execution crashed, or it did not.
LockExec(w) ==
    /\ pc[w] = "LK_Exec"
    /\ \E crashed \in BOOLEAN :
          pc' = [pc EXCEPT ![w] = IF crashed THEN "LK_CrashK" ELSE "LK_Stop"]
    /\ UNCHANGED <<settings, unitVars, storeVars, graphVars, lockVars,
                   globalVars, phase, error_message, localVars, tui_pc,
                   ghostVars>>

\* fuzzer.cc:524 and 722: lock_guard on knowledge.knowledge_mutex.
LockCrashKnowledge(w) ==
    /\ pc[w] = "LK_CrashK"
    /\ knowledge_mutex = NoThread
    /\ knowledge_mutex' = w
    /\ pc' = [pc EXCEPT ![w] = "LK_CrashThis"]
    /\ UNCHANGED <<settings, unitVars, storeVars, graphVars, graph_mutex,
                   globalVars, phase, error_message, localVars, tui_pc,
                   ghostVars>>

\* graph.cc:386: CopyGraphData locks the graph_mutex of the copy,
\* crash_info.graph, which no other thread can name.
LockCopyThis(w) ==
    /\ pc[w] = "LK_CrashThis"
    /\ call.copy_mutex[w] = NoThread
    /\ call' = [call EXCEPT !.copy_mutex[w] = w]
    /\ pc' = [pc EXCEPT ![w] = "LK_CrashOther"]
    /\ UNCHANGED <<settings, regionVars, storeVars, graphVars, lockVars,
                   globalVars, phase, error_message, localVars, tui_pc,
                   ghostVars>>

\* graph.cc:387: then the graph_mutex of knowledge.graph.
LockCopyOther(w) ==
    /\ pc[w] = "LK_CrashOther"
    /\ graph_mutex = NoThread
    /\ graph_mutex' = w
    /\ pc' = [pc EXCEPT ![w] = "LK_CrashCopy"]
    /\ UNCHANGED <<settings, unitVars, storeVars, graphVars, knowledge_mutex,
                   globalVars, phase, error_message, localVars, tui_pc,
                   ghostVars>>

\* graph.cc:388-399 and fuzzer.cc:526, 724: the copy, then the three
\* guards release in the reverse order.
LockCopyEnd(w) ==
    /\ pc[w] = "LK_CrashCopy"
    /\ graph_mutex' = NoThread
    /\ call' = [call EXCEPT !.copy_mutex[w] = NoThread]
    /\ knowledge_mutex' = NoThread
    /\ pc' = [pc EXCEPT ![w] = "LK_Stop"]
    /\ UNCHANGED <<settings, regionVars, storeVars, graphVars, globalVars,
                   phase, error_message, localVars, tui_pc, ghostVars>>

\* fuzzer.cc:745-755 and 547-551: Run leaves on the stop flag; an empty
\* trace is not offered to the store.
LockStop(w) ==
    /\ pc[w] = "LK_Stop"
    /\ IF phase[w] = "steady" /\ g_should_stop_fuzzing
       THEN pc' = [pc EXCEPT ![w] = "Done"]
       ELSE \E empty \in BOOLEAN :
               pc' = [pc EXCEPT ![w] = IF empty THEN LockLoopTop(w)
                                       ELSE "LK_Add"]
    /\ UNCHANGED <<settings, unitVars, storeVars, graphVars, lockVars,
                   globalVars, phase, error_message, localVars, tui_pc,
                   ghostVars>>

\* knowledge.cc:28: AddExecutionIfDifferent locks knowledge_mutex.
LockAdd(w) ==
    /\ pc[w] = "LK_Add"
    /\ knowledge_mutex = NoThread
    /\ knowledge_mutex' = w
    /\ pc' = [pc EXCEPT ![w] = "LK_AddScan"]
    /\ UNCHANGED <<settings, unitVars, storeVars, graphVars, graph_mutex,
                   globalVars, phase, error_message, localVars, tui_pc,
                   ghostVars>>

\* knowledge.cc:30-58: an equal trace returns false and unlocks; else the
\* execution is written and the graph is next.
LockAddScan(w) ==
    /\ pc[w] = "LK_AddScan"
    /\ \/ /\ knowledge_mutex' = NoThread
          /\ pc' = [pc EXCEPT ![w] = LockLoopTop(w)]
       \/ /\ UNCHANGED knowledge_mutex
          /\ pc' = [pc EXCEPT ![w] = "LK_AddAbsorb"]
    /\ UNCHANGED <<settings, unitVars, storeVars, graphVars, graph_mutex,
                   globalVars, phase, error_message, localVars, tui_pc,
                   ghostVars>>

\* knowledge.cc:60 and graph.cc:13: UpdateGraphFromTrace locks graph_mutex
\* while the thread holds knowledge_mutex.
LockAddAbsorb(w) ==
    /\ pc[w] = "LK_AddAbsorb"
    /\ graph_mutex = NoThread
    /\ graph_mutex' = w
    /\ pc' = [pc EXCEPT ![w] = "LK_AddAbsorbed"]
    /\ UNCHANGED <<settings, unitVars, storeVars, graphVars, knowledge_mutex,
                   globalVars, phase, error_message, localVars, tui_pc,
                   ghostVars>>

\* graph.cc:45: the end of UpdateGraphFromTrace.
LockAddAbsorbEnd(w) ==
    /\ pc[w] = "LK_AddAbsorbed"
    /\ graph_mutex' = NoThread
    /\ pc' = [pc EXCEPT ![w] = "LK_AddTrain"]
    /\ UNCHANGED <<settings, unitVars, storeVars, graphVars, knowledge_mutex,
                   globalVars, phase, error_message, localVars, tui_pc,
                   ghostVars>>

\* knowledge.cc:62-73: UpdateEmbeddings takes no lock; SerializeKnowledge
\* returns or throws, and either way the guard releases knowledge_mutex.
LockAddEnd(w) ==
    /\ pc[w] = "LK_AddTrain"
    /\ knowledge_mutex' = NoThread
    /\ \/ /\ pc' = [pc EXCEPT ![w] = LockLoopTop(w)]
          /\ UNCHANGED error_message
       \/ /\ pc' = [pc EXCEPT ![w] = "Error"]
          /\ error_message' = [error_message EXCEPT ![w] =
                 "SerializeKnowledge: failed to open file for writing"]
    /\ UNCHANGED <<settings, unitVars, storeVars, graphVars, graph_mutex,
                   globalVars, phase, localVars, tui_pc, ghostVars>>

\* main.cc:179-184: the dashboard thread leaves on the stop flag, else
\* GetHistorySnapshot() locks knowledge_mutex.
LockTuiSnapshot ==
    /\ tui_pc = "T_Loop"
    /\ IF g_should_stop_fuzzing
       THEN /\ tui_pc' = "T_Done"
            /\ UNCHANGED knowledge_mutex
       ELSE /\ knowledge_mutex = NoThread
            /\ knowledge_mutex' = TuiThread
            /\ tui_pc' = "T_Snapshot"
    /\ UNCHANGED <<settings, unitVars, storeVars, graphVars, graph_mutex,
                   globalVars, ctlVars, localVars, ghostVars>>

\* knowledge.cc:76-79: the end of GetHistorySnapshot.
LockTuiSnapshotEnd ==
    /\ tui_pc = "T_Snapshot"
    /\ knowledge_mutex' = NoThread
    /\ tui_pc' = "T_Count"
    /\ UNCHANGED <<settings, unitVars, storeVars, graphVars, graph_mutex,
                   globalVars, ctlVars, localVars, ghostVars>>

\* main.cc:198-199: lock_guard on knowledge_mutex for the count.
LockTuiCount ==
    /\ tui_pc = "T_Count"
    /\ knowledge_mutex = NoThread
    /\ knowledge_mutex' = TuiThread
    /\ tui_pc' = "T_Read"
    /\ UNCHANGED <<settings, unitVars, storeVars, graphVars, graph_mutex,
                   globalVars, ctlVars, localVars, ghostVars>>

LockWorkerStep(w) ==
    \/ LockSnapshot(w)
    \/ LockSnapshotEnd(w)
    \/ LockGraphCall(w)
    \/ LockGraphCallEnd(w)
    \/ LockExec(w)
    \/ LockCrashKnowledge(w)
    \/ LockCopyThis(w)
    \/ LockCopyOther(w)
    \/ LockCopyEnd(w)
    \/ LockStop(w)
    \/ LockAdd(w)
    \/ LockAddScan(w)
    \/ LockAddAbsorb(w)
    \/ LockAddAbsorbEnd(w)
    \/ LockAddEnd(w)

LockTuiStep ==
    \/ LockTuiSnapshot
    \/ LockTuiSnapshotEnd
    \/ LockTuiCount
    \/ TuiRead

LockNext ==
    \/ \E w \in WorkerIds : LockWorkerStep(w)
    \/ LockTuiStep
    \/ RequestStop

\* Every thread that can take a step is scheduled eventually; a thread
\* that waits for a mutex gets no more than that.
LockFairness ==
    /\ \A w \in WorkerIds : WF_vars(LockWorkerStep(w))
    /\ WF_vars(LockTuiStep)

LockSpec == LockInit /\ [][LockNext]_vars /\ LockFairness

\* ------------------- GenerateNewInputWithGradientDescent, steps 2 to 4
\* The mutator as a function of two executions whose inputs may differ in
\* size: the Jacobian, the chain rule and the update of every byte.

\* update = x_j - eta * dL_dx[j], for a speed of eta / SpeedScale and an
\* exact dL/dx
UpdateRatio(x, eta, g, j) ==
    Ratio(ByteAt(x, j) * SpeedScale * g.den - eta * g.num, SpeedScale * g.den)

\* The clamp at 0 and std::fmod(update, 256.0) above 255.
WrappedRatio(u) ==
    IF u.num < 0 THEN Ratio(0, 1)
    ELSE IF u.num > MaxByte * u.den
    THEN Ratio(u.num % (ByteModulus * u.den), u.den)
    ELSE u

\* std::round of a non-negative number: halves go up.
RoundRatio(u) == (2 * u.num + u.den) \div (2 * u.den)

\* x_new[j], lines 861-881: the byte of the current input under a speed of
\* zero or less, else the update, wrapped, rounded and cast.
DescentBytes(x, eta, g, j) ==
    IF Frozen(eta) THEN {ByteAt(x, j)}
    ELSE CastU8(RoundRatio(WrappedRatio(UpdateRatio(x, eta, g, j))))

\* The first n bytes of x_new, every outcome of every cast.
RECURSIVE DescentInputs(_, _, _, _)
DescentInputs(x, eta, g, n) ==
    IF n = 0 THEN {<< >>}
    ELSE {Append(s, b) : s \in DescentInputs(x, eta, g, n - 1),
                         b \in DescentBytes(x, eta[n], g[n], n)}

DescentCalls ==
    {[op |-> "ComputeBehavioralGradient", stage |-> "entry",
      forbidden_execution |-> [input |-> xx[1], trace |-> yy[1]],
      current_execution |-> [input |-> xx[2], trace |-> yy[2]],
      dL_dy |-> yy[3],
      graph |-> AbsorbBoth(<< >>, << >>, yy[2], yy[1]).graph,
      embeddings |-> [n \in {yy[1][k] : k \in 1..Len(yy[1])}
                             \cup {yy[2][k] : k \in 1..Len(yy[2])} |->
                         StoredEmbedding(n)],
      dy |-> << >>, dx |-> << >>, jacobian |-> << >>, dL_dx |-> << >>,
      exploration_speed |-> << >>, x_new |-> << >>] :
        xx \in (UNION {[1..n -> GradientBytes] : n \in 1..MaxInputDim})
               \X (UNION {[1..n -> GradientBytes] : n \in 1..MaxInputDim}),
        yy \in UNION {{<<f, c, g>> :
                         g \in [1..Max(Len(f), Len(c)) -> LossGradientValues]} :
                      f \in GradientTraces, c \in GradientTraces}}

DescentInit ==
    /\ settings = [thread_count |-> 1,
                   max_history_count |-> MaxHistoryCount,
                   input_size |-> [min |-> 1, max |-> 1, step |-> 1],
                   target |-> [reads |-> TRUE, hangs |-> FALSE]]
    /\ FreshStore
    /\ FreshThreads
    /\ call \in DescentCalls

\* Lines 847-884, under any exploration speeds: the size check, then every
\* byte of x_new.
DescentUpdate ==
    /\ call.op = "ComputeBehavioralGradient"
    /\ call.stage = "done"
    /\ call.x_new = << >>
    /\ \E eta \in UNION {[1..n -> SpeedValues] : n \in 1..MaxInputDim} :
          IF Len(eta) # Len(call.dL_dx)
          THEN call' = [call EXCEPT !.stage = "threw",
                                    !.exploration_speed = eta]
          ELSE \E x_new \in DescentInputs(call.current_execution.input,
                                          eta, call.dL_dx,
                                          Len(call.dL_dx)) :
                  call' = [call EXCEPT !.stage = "returned",
                                       !.exploration_speed = eta,
                                       !.x_new = x_new]
    /\ UNCHANGED <<settings, regionVars, storeVars, graphVars, lockVars,
                   globalVars, ctlVars, localVars, tui_pc, ghostVars>>

DescentNext ==
    \/ GradientTrain
    \/ GradientJacobian
    \/ GradientChain
    \/ DescentUpdate

DescentSpec == DescentInit /\ [][DescentNext]_vars

\* ------------------------------------------------- the crash artifacts
\* The files of the work directory that the crash paths of the workers
\* write, and the clock their names are taken from.  A file holds the
\* CrashInfo of the crash of some number, whole or cut short by a write
\* that failed.

\* Signal numbers of a crashed target: SIGABRT and SIGSEGV.
CrashSignals == {6, 11}

\* fuzzer.cc:726-731: work_dir/crash_thread<id>_sig<signal>_<time>.crash,
\* the time being std::time(nullptr) printed as %Y%m%d_%H%M%S.
CrashFilename(thread_id, signal_number, now) ==
    <<thread_id, signal_number, now>>

CrashInit ==
    /\ settings = [thread_count |-> 2,
                   max_history_count |-> MaxHistoryCount,
                   input_size |-> [min |-> 1, max |-> 1, step |-> 1],
                   target |-> [reads |-> TRUE, hangs |-> FALSE]]
    /\ FreshStore
    /\ FreshThreads
    /\ call = [op |-> "SerializeCrash", now |-> 0, crashes |-> 0,
               files |-> << >>, written |-> {}]

\* The file system after std::ofstream out(filepath, std::ios::binary)
\* and the writes: the file is created or truncated, then filled.
WithFile(files, name, content) ==
    [n \in DOMAIN files \cup {name} |->
        IF n = name THEN content ELSE files[n]]

\* fuzzer.cc:726-741 and crash.cc:134-201: a worker's execution crashed;
\* the artifact is written under the name of this second, and
\* g_crash_count moves only when SerializeCrash returns.
CrashSerialize ==
    /\ call.op = "SerializeCrash"
    /\ call.crashes < MaxCrashes
    /\ \E w \in Workers, signal_number \in CrashSignals :
          LET name == CrashFilename(w, signal_number, call.now)
              crash == call.crashes + 1
          IN \/ /\ call' = [call EXCEPT
                               !.crashes = crash,
                               !.files = WithFile(@, name,
                                   [crash |-> crash, whole |-> TRUE]),
                               !.written = @ \cup {crash}]
                /\ g_crash_count' = (g_crash_count + 1) % CounterModulus
             \/ /\ call' = [call EXCEPT !.crashes = crash]
                /\ UNCHANGED g_crash_count
             \/ /\ call' = [call EXCEPT
                               !.crashes = crash,
                               !.files = WithFile(@, name,
                                   [crash |-> crash, whole |-> FALSE])]
                /\ UNCHANGED g_crash_count
    /\ UNCHANGED <<settings, regionVars, storeVars, graphVars, lockVars,
                   g_should_stop_fuzzing, g_total_executions, ctlVars,
                   localVars, tui_pc, ghostVars>>

\* A second passes.
CrashClock ==
    /\ call.op = "SerializeCrash"
    /\ call.now < MaxSeconds
    /\ call' = [call EXCEPT !.now = @ + 1]
    /\ UNCHANGED <<settings, regionVars, storeVars, graphVars, lockVars,
                   globalVars, ctlVars, localVars, tui_pc, ghostVars>>

CrashNext ==
    \/ CrashSerialize
    \/ CrashClock

CrashSpec == CrashInit /\ [][CrashNext]_vars

\* ------------------------------------------------------------ properties

Returned == {"added", "not_added", "threw"}
\* A worker thread is gone: Run returned, an exception ended it, or the
\* process was killed.
Exited == {"Done", "Error", "Killed"}
CheckpointErrors ==
    {"SerializeKnowledge: failed to open file for writing",
     "SerializeKnowledge: failed to write data to file"}

\* C1: a try-insert of an execution with non-empty input and trace returns
\* added if and only if its trace differs from the trace of every occupied
\* slot at the moment of the call.
C1_InsertDeterminism ==
    \A w \in WorkerIds :
        add_result[w] \in Returned =>
            (add_result[w] = "added" <=> add_differs[w])

\* C2: no two occupied slots ever hold equal traces, and of two overlapping
\* try-inserts that carry the same not-yet-stored trace exactly one returns
\* added.
C2_NoDuplicateTraces ==
    /\ \A i \in Slots, j \in Slots :
          (i # j /\ history[i].trace # << >>) =>
              history[i].trace # history[j].trace
    /\ \A v \in WorkerIds, w \in WorkerIds :
          (/\ v # w
           /\ add_race[v] /\ add_race[w]
           /\ add_result[v] \in Returned /\ add_result[w] \in Returned)
          => Cardinality({u \in {v, w} : add_result[u] = "added"}) = 1

\* The threads inside an update of the adjacency or the embeddings
\* (UpdateEmbeddings), and the threads reading them (CopyGraphData, the
\* dashboard's count).
GraphUpdaters == {w \in WorkerIds : pc[w] \in {"AE_UE_In", "Mut_UE_In"}}
GraphReaders ==
    {w \in WorkerIds : pc[w] = "CR_Copy"}
        \cup (IF tui_pc = "T_Read" THEN {TuiThread} ELSE {})

\* C3: in no reachable state are two threads inside graph or embedding
\* updates at the same time, and no thread reads the adjacency or the
\* embeddings while another thread is updating them.
C3_GraphLockExclusive ==
    /\ Cardinality(GraphUpdaters) <= 1
    /\ GraphUpdaters # {} => GraphReaders = {}

\* C4: in the steady-state loop an execution with an empty trace is skipped
\* and never ends the worker with a contract error.
C4_EmptyTraceSkipped ==
    \A w \in WorkerIds :
        ~(/\ pc[w] = "Error"
          /\ current_source[w] = "exec"
          /\ error_message[w] = "EmbeddingLoss: walk trace cannot be empty")

\* C5: a checkpoint file that cannot be written does not fail the enclosing
\* try-insert: no error propagates to the worker and the call returns added.
C5_CheckpointFailureSuppressed ==
    \A w \in WorkerIds :
        /\ error_message[w] \notin CheckpointErrors
        /\ checkpoint = "truncated" => add_result[w] # "threw"

\* C6: once the shutdown flag is set every worker eventually exits, provided
\* every target execution terminates.
C6_StopEndsEveryWorker ==
    (g_should_stop_fuzzing /\ ~settings.target.hangs)
        ~> (\A w \in Workers : pc[w] \in Exited)

\* C7: if the shutdown flag is set while a worker's child is running, the
\* child is terminated and reaped, also when it would never end on its own.
C7_StopReapsRunningChild ==
    \A w \in WorkerIds :
        (g_should_stop_fuzzing /\ child[w] = "running")
            ~> (child[w] = "none" \/ pc[w] = "Killed")

\* C8: the write of the input to the pipe never blocks forever: it completes
\* or fails, and the worker reaches the wait for the child or the error exit.
C8_WriteNeverBlocksForever ==
    \A w \in WorkerIds :
        (pc[w] = "EO_Write") ~> (pc[w] \in {"EO_Wait", "Error", "Killed"})

\* C9: the ring copy and the write index a worker uses together are
\* consistent, so the current execution it takes from the slot before the
\* index at the start of the steady-state loop has a non-empty trace and
\* input.
C9_SnapshotConsistent ==
    \A w \in WorkerIds :
        (pc[w] \in {"Loop_Top", "Mut_Loss"} /\ current_source[w] = "snapshot")
            => /\ current_execution[w].trace # << >>
               /\ current_execution[w].input # << >>

\* The graph has every node of the trace, with an embedding, and every
\* consecutive pair of it as an edge.
GraphCovers(trace) ==
    /\ \A k \in 1..Len(trace) :
          trace[k] \in DOMAIN graph /\ trace[k] \in DOMAIN embeddings
    /\ \A k \in 1..(Len(trace) - 1) :
          Contains(graph[trace[k]], trace[k + 1])

\* C10: whenever the store lock is free, the graph covers every trace that
\* try-insert has ever added; hence it covers every trace of every snapshot.
C10_GraphCoversAddedTraces ==
    /\ knowledge_mutex = NoThread =>
          \A t \in ever_added : GraphCovers(t)
    /\ \A w \in WorkerIds :
          history_snapshot[w] # NoSnapshot =>
              \A i \in Slots : GraphCovers(history_snapshot[w][i].trace)

\* The ring accesses a worker is about to make cannot fall outside the
\* ring it reads or writes: the latest slot of its snapshot, the slots of
\* the forbidden scan, the slot try-insert writes.
RingAccessInBounds(w) ==
    /\ pc[w] = "Run_Latest2" =>
           LatestIndex(history_index) \in DOMAIN history_snapshot[w]
    /\ (pc[w] = "Loop_Top" /\ ~g_should_stop_fuzzing) =>
           \A start \in 0..(Capacity - 1) :
               \A r \in ScanFrom(history, start, 0) : r.kind # "segfault"
    /\ (/\ pc[w] = "AE_Enter"
        /\ new_execution[w].trace # << >>
        /\ ~HasEqualTrace(history, new_execution[w].trace)) =>
           history_index \in DOMAIN history

\* C11: the ring's length equals max_history_count, the write index is less
\* than the ring's length, the occupied slots do not exceed the capacity,
\* and every ring access of a worker is within the ring's bounds; also on a
\* store started from a loaded checkpoint.
C11_RingWithinCapacity ==
    /\ DOMAIN history = 0..(Capacity - 1)
    /\ history_index \in DOMAIN history
    /\ CountExecutions(history) <= Capacity
    /\ \A w \in WorkerIds :
          knowledge_mutex = NoThread => RingAccessInBounds(w)

\* C12: every slot is empty in both trace and input or non-empty in both,
\* and an occupied slot never becomes empty again.
C12_SlotsStayOccupied ==
    /\ [](\A i \in DOMAIN history :
              (history[i].trace = << >>) <=> (history[i].input = << >>))
    /\ [][\A i \in DOMAIN history :
              history[i].trace # << >> =>
                  /\ history'[i].trace # << >>
                  /\ history'[i].input # << >>]_vars

\* On a store loaded from a checkpoint of the same capacity, try-insert has
\* overwritten the oldest stored execution while a younger one is still
\* in the ring.
C12_Witness ==
    /\ DOMAIN history = 0..(Capacity - 1)
    /\ \E i \in DOMAIN history : history[i] = StoredBefore[2]
    /\ history[0].trace \in ever_added

\* C13: try-insert called with an empty trace or an empty input raises a
\* contract error and leaves the ring, the write index, the adjacency, the
\* embeddings and the checkpoint unchanged.
C13_EmptyExecutionRejected ==
    [][\A w \in WorkerIds :
          (/\ pc[w] = "AE_Enter"
           /\ pc'[w] # "AE_Enter"
           /\ (new_execution[w].trace = << >>
                  \/ new_execution[w].input = << >>))
          => /\ pc'[w] = "Error"
             /\ error_message'[w] \in
                    {"Cannot add execution with empty trace to knowledge",
                     "Cannot add execution with empty input to knowledge"}
             /\ add_result'[w] = "threw"
             /\ UNCHANGED <<history, history_index, graph, embeddings,
                            checkpoint>>]_vars

\* A call with a non-empty trace and an empty input has been rejected on a
\* store that already holds an execution and a written checkpoint.
C13_Witness ==
    /\ CountExecutions(history) >= 1
    /\ checkpoint = "written"
    /\ \E w \in WorkerIds :
          /\ pc[w] = "Error"
          /\ error_message[w]
                 = "Cannot add execution with empty input to knowledge"

\* C14: a child ended by a signal is reaped by the wait of ExecOnce, which
\* hands the worker to the crash path with the execution's input; the crash
\* path ends at the post-execution steps whether or not the artifact was
\* written; from there the worker goes to try-insert when the trace is not
\* empty and round the loop otherwise (Run returns when the stop flag is set).
C14_CrashHandledAndContinues ==
    [][\A w \in WorkerIds :
          /\ (child[w] = "signaled" /\ child'[w] = "none")
             => /\ pc'[w] = "CR_LockK"
                /\ new_execution'[w].input = input[w]
          /\ (pc[w] = "CR_Copy" /\ pc'[w] # "CR_Copy")
             => /\ pc'[w] = "Post_Crash"
                /\ new_execution'[w] = new_execution[w]
          /\ (pc[w] = "Post_Crash" /\ pc'[w] # "Post_Crash")
             => pc'[w] = IF phase[w] = "steady" /\ g_should_stop_fuzzing
                         THEN "Done"
                         ELSE IF new_execution[w].trace # << >>
                         THEN "AE_Enter"
                         ELSE IF phase[w] = "steady" THEN "Loop_Top"
                         ELSE "IR_Loop"]_vars

\* What a child has published when it is reaped: the first
\* min(count, capacity) offsets of its run once the count is written, and
\* nothing before that.
PublishedBy(t) ==
    IF t.stage = "done"
    THEN [k \in 1..MaxWrite(t) |-> t.exec_trace[k] % U32Modulus]
    ELSE << >>

\* C15: the trace ExecOnce returns is exactly what the worker's own child
\* published in this execution, and empty when that child published nothing:
\* no offsets of an earlier execution, of a half-filled array or of another
\* worker's child.
C15_TraceIsOwnChilds ==
    [][\A w \in WorkerIds :
          (pc[w] = "EO_Wait" /\ pc'[w] = "IR_Loop")
          => /\ new_execution'[w].trace = PublishedBy(tracer[w])
             /\ new_execution'[w].input = input[w]]_vars

\* A worker has got a one-offset trace back while its region still holds the
\* second offset of an earlier, longer execution, and the other worker's
\* child is in the middle of filling its own region.
C15_Witness ==
    \E w \in WorkerIds : \E v \in WorkerIds \ {w} :
       /\ pc[w] = "IR_Loop"
       /\ new_execution[w].trace = <<1>>
       /\ shared_trace[w].addresses[2] = 1
       /\ tracer[v].stage = "fill"
       /\ tracer[v].i = 1
       /\ shared_trace[v].addresses[1] = 2

\* The edges of an adjacency map.
Edges(g) ==
    UNION {{<<k, g[k][j]>> : j \in 1..Len(g[k])} : k \in DOMAIN g}

\* C16: no step of the program (an absorb of try-insert or of the mutator,
\* a training) removes a node, an edge or an embedding entry.
C16_GraphNeverShrinks ==
    [][/\ DOMAIN graph \subseteq DOMAIN graph'
       /\ Edges(graph) \subseteq Edges(graph')
       /\ DOMAIN embeddings \subseteq DOMAIN embeddings']_vars

\* C17: the adjacency map and the embedding map have the same keys, every
\* neighbour is a key of the adjacency map, no adjacency list holds a
\* successor twice and every embedding has D components.
C17_GraphInvariants ==
    /\ DOMAIN graph = DOMAIN embeddings
    /\ \A k \in DOMAIN graph :
          /\ \A j \in 1..Len(graph[k]) : graph[k][j] \in DOMAIN graph
          /\ \A i, j \in 1..Len(graph[k]) :
                graph[k][i] = graph[k][j] => i = j
    /\ \A n \in DOMAIN embeddings : embeddings[n] = EmbeddingDim

\* C18: the loss of a non-empty trace against itself is 1.0, whatever
\* embeddings the graph holds for its nodes.
C18_LossIdentity ==
    (/\ call.op = "EmbeddingLoss"
     /\ call.stage = "done"
     /\ call.walk = call.forbidden_walk)
    => call.result = LossScale

\* C19: every byte the mutator has written at a position whose exploration
\* speed is zero or negative is the current input's byte at that position,
\* or 0 past the end of the current input, whatever dL/dx is.
C19_FrozenBytesCopied ==
    call.op = "GenerateNewInput"
    => \A j \in 1..Len(call.x_new) :
          call.exploration_speed[j] <= 0
          => call.x_new[j] = ByteAt(call.x_current, j)

\* The mutator has returned an input one byte longer than the current one:
\* the first byte, with a positive speed, has changed, and the added byte is
\* frozen under a gradient that is not zero.
C19_Witness ==
    /\ call.op = "GenerateNewInput"
    /\ call.stage = "done"
    /\ call.x_current = <<1>>
    /\ call.exploration_speed = <<SpeedScale, 0 - SpeedScale>>
    /\ call.dL_dx = <<0 - SpeedScale, SpeedScale>>
    /\ call.x_new = <<2, 0>>

\* The octet the update rule names for a number u of 1 / SpeedScale^2.
EmittedFor(u) ==
    IF u < 0 THEN 0
    ELSE IF u <= MaxByte * SpeedScale * SpeedScale THEN Round(u)
    ELSE Round(u % (ByteModulus * SpeedScale * SpeedScale)) % ByteModulus

\* C20: a byte written at a position with a positive speed is 0 for a
\* negative update, the nearest integer for an update up to 255, and the
\* nearest integer of the update modulo 256, modulo 256, above; it is an
\* octet in every case.
C20_UpdateClamped ==
    call.op = "GenerateNewInput"
    => \A j \in 1..Len(call.x_new) :
          call.exploration_speed[j] > 0
          => /\ call.x_new[j] \in 0..MaxByte
             /\ call.x_new[j] =
                   EmittedFor(UpdateOf(call.x_current,
                                       call.exploration_speed[j],
                                       call.dL_dx[j], j))

\* C21: after the freeze step of an accepted mutation every position where
\* the produced input differs from the previous current input has the
\* speed -1.0 and every other position has the speed it had before; after
\* the freeze step of a mutation that was not accepted every speed is the
\* one it had before.
C21_FreezeOnAccepted ==
    (call.op = "Run" /\ call.stage = "frozen")
    => \A j \in 1..Len(call.exploration_speed) :
          IF call.was_added
             /\ ByteAt(call.current_input, j) # ByteAt(call.new_input, j)
          THEN call.exploration_speed[j] = 0 - One
          ELSE /\ j <= Len(call.speed_before)
               /\ call.exploration_speed[j] = call.speed_before[j]

\* An accepted mutation changed the first byte only while the second one,
\* frozen earlier, was on its way up: the first speed is -1.0 and the
\* second one is still the negative speed it was.
C21_Witness ==
    /\ call.op = "Run"
    /\ call.stage = "frozen"
    /\ call.was_added
    /\ Len(call.new_input) = 2
    /\ call.current_input[1] # call.new_input[1]
    /\ call.current_input[2] = call.new_input[2]
    /\ call.speed_before[1] > 0
    /\ call.exploration_speed[1] = 0 - One
    /\ call.exploration_speed[2] = Acceleration - One

\* C22: after t thaw steps since a speed was last set to -1.0 (or since the
\* start of the loop), every speed is at least the smaller of 1.0 and
\* -1.0 + t * acceleration.
C22_ThawLowerBound ==
    call.op = "Run"
    => \A j \in 1..Len(call.exploration_speed) :
          call.exploration_speed[j]
             >= Min(One, call.thaws * Acceleration - One)

\* The freeze step of an accepted mutation has just stored -1.0 at j.
FreezeHits(j) ==
    /\ call.stage = "frozen"
    /\ call.was_added
    /\ ByteAt(call.current_input, j) # ByteAt(call.new_input, j)

\* C23: a byte whose speed is zero or negative later has a positive speed,
\* unless a freeze hits it again first; and a positive speed stays positive
\* in every step that is not a freeze of that byte.
C23_FrozenByteThaws ==
    /\ \A j \in 1..MaxInputDim :
          []((j <= Len(call.exploration_speed)
              /\ call.exploration_speed[j] <= 0)
             => <>((j <= Len(call.exploration_speed)
                    /\ call.exploration_speed[j] > 0) \/ FreezeHits(j)))
    /\ [][\A j \in 1..Len(call.exploration_speed) :
             (call.exploration_speed[j] > 0 /\ ~FreezeHits(j)')
             => call.exploration_speed[j]' > 0]_vars

\* The byte was frozen by an accepted mutation and has been thawed to the
\* first positive speed, ThawSteps loop iterations later.
C23_Witness ==
    /\ call.op = "Run"
    /\ call.stage = "loop"
    /\ call.thaws = ThawSteps
    /\ call.exploration_speed[1] = ThawSteps * Acceleration - One

\* C24: the input a worker writes to the pipe of its child has exactly the
\* worker's thread_input_size bytes.
C24_SubmittedInputSize ==
    \A w \in Workers :
        pc[w] \in {"EO_Write", "EO_Wait"}
        => Len(input[w]) = ThreadInputSize(w)

\* In the steady state the worker of size 2 writes a 2-byte input to its
\* child while the ring holds the 1-byte and the 3-byte input of the
\* earlier run, one of which became its current execution.
C24_Witness ==
    /\ pc[0] = "EO_Write"
    /\ phase[0] = "steady"
    /\ Len(input[0]) = 2
    /\ Len(history[0].input) = 1
    /\ Len(history[1].input) = 3
    /\ current_source[0] # "none"

\* The members DeserializeKnowledge has read are those of the store k.
Restored(loaded, k) ==
    /\ loaded.history = k.history
    /\ loaded.history_index = k.history_index
    /\ loaded.graph = k.graph
    /\ loaded.embeddings = k.embeddings
    /\ loaded.ZERO_EMBEDDING = k.ZERO_EMBEDDING
    /\ loaded.embedding_dim = k.embedding_dim
    /\ loaded.parameters = k.parameters

\* C25: DeserializeKnowledge on the file SerializeKnowledge wrote for a
\* store returns, and the ring with its empty slots, the write index, the
\* adjacency map, the embedding table, the zero embedding, the embedding
\* dimension and the Node2Vec parameters it has read are those of the
\* store.
C25_CheckpointRoundTrip ==
    (/\ call.op = "main"
     /\ call.file.exists
     /\ call.file.intact
     /\ call.stage \in {"loaded", "threw"})
    => /\ call.stage = "loaded"
       /\ Restored(call.loaded_knowledge, call.persisted)

\* C26: when DeserializeKnowledge has thrown, the store the run starts
\* with has a ring of the configured capacity with every slot empty, the
\* write index 0 and an empty graph and embedding table, whatever had been
\* read.
C26_FailedLoadStartsEmpty ==
    (/\ call.op = "main"
     /\ call.stage = "running"
     /\ call.fresh_start
     /\ call.load = "failed")
    => /\ Len(call.knowledge.history) = call.settings.max_history_count
       /\ \A i \in 1..Len(call.knowledge.history) :
             call.knowledge.history[i] = EmptyExecution
       /\ call.knowledge.history_index = 0
       /\ DOMAIN call.knowledge.graph = {}
       /\ DOMAIN call.knowledge.embeddings = {}

\* The load threw in the embedding table, after the ring with an occupied
\* slot and the adjacency map had been read, and the run has started.
C26_Witness ==
    /\ call.op = "main"
    /\ call.stage = "running"
    /\ call.fresh_start
    /\ call.load = "failed"
    /\ call.loaded_knowledge.history[1].trace # << >>
    /\ DOMAIN call.loaded_knowledge.graph # {}
    /\ DOMAIN call.loaded_knowledge.embeddings = {}
    /\ call.knowledge.history[1] = EmptyExecution

\* C27: a run that starts with the settings of the run before, which had
\* inserted and was stopped cleanly, on the file that run left, starts
\* with the ring and the write index of the last insert of that run, and
\* with every node and edge the graph had when that run stopped.
C27_RestartRestoresStore ==
    (/\ call.op = "main"
     /\ call.stage = "running"
     /\ call.fresh_start
     /\ call.restarts > 0
     /\ call.previous.inserted
     /\ call.previous.clean
     /\ call.file.intact
     /\ call.settings = call.previous.settings)
    => /\ call.knowledge.history = call.previous.persisted.history
       /\ call.knowledge.history_index
              = call.previous.persisted.history_index
       /\ DOMAIN call.previous.at_stop.graph \subseteq DOMAIN call.knowledge.graph
       /\ Edges(call.previous.at_stop.graph) \subseteq Edges(call.knowledge.graph)

\* The Jacobian entry and the input gradient the specification states, for
\* an input difference delta_x.
StatedEntry(d_i, delta_x) ==
    IF delta_x # 0 THEN Ratio(d_i, delta_x) ELSE Ratio(0, 1)

RECURSIVE StatedGradientFrom(_, _, _, _)
StatedGradientFrom(d, delta_x, dL_dy, i) ==
    IF i > Len(d) THEN Ratio(0, 1)
    ELSE RatioPlus(RatioTimes(StatedEntry(d[i], delta_x), dL_dy[i]),
                   StatedGradientFrom(d, delta_x, dL_dy, i + 1))

\* C28: once the mutator has its input gradient, every Jacobian entry is
\* d_i / (x_f[j] - x_c[j]), the forbidden byte minus the current byte with
\* missing bytes as 0, or 0 when the two bytes are equal, and the input
\* gradient of byte j is the sum over i of that entry times dL/dy[i], with
\* that sign.
C28_JacobianForbiddenMinusCurrent ==
    call.op = "ComputeBehavioralGradient" /\ call.stage = "done" =>
        LET x_f == call.forbidden_execution.input
            x_c == call.current_execution.input
            d == TraceDistances(call.embeddings,
                                call.forbidden_execution.trace,
                                call.current_execution.trace)
        IN /\ Len(call.jacobian) = Len(d)
           /\ Len(call.dL_dx) = Max(Len(x_f), Len(x_c))
           /\ \A j \in 1..Max(Len(x_f), Len(x_c)) :
                 LET delta_x == ByteAt(x_f, j) - ByteAt(x_c, j)
                 IN /\ \A i \in 1..Len(d) :
                          RatioEqual(call.jacobian[i][j],
                                     StatedEntry(d[i], delta_x))
                    /\ RatioEqual(call.dL_dx[j],
                                  StatedGradientFrom(d, delta_x,
                                                     call.dL_dy, 1))

\* C29: after a trace t is absorbed the nodes are the old nodes and the
\* nodes of t, the edges are the old edges and the pairs of consecutive
\* nodes of t, a node followed by itself included, every node that had an
\* embedding keeps it, and only the nodes new to the graph get one.
C29_AbsorbAddsNodesAndEdges ==
    call.op = "UpdateGraphFromTrace" /\ call.stage = "absorbed" =>
        /\ DOMAIN call.graph = DOMAIN call.old_graph \cup TraceNodes(call.trace)
        /\ Edges(call.graph) =
              Edges(call.old_graph)
                 \cup {<<call.trace[i], call.trace[i + 1]>> :
                          i \in 1..(Len(call.trace) - 1)}
        /\ DOMAIN call.embeddings =
              DOMAIN call.old_embeddings \cup TraceNodes(call.trace)
        /\ \A n \in DOMAIN call.old_embeddings :
              call.embeddings[n] = call.old_embeddings[n]
        /\ \A n \in DOMAIN call.embeddings :
              call.embeddings[n] \in EmbeddingValues

\* A trace with a self-transition of a new node and a step to a known node
\* has been absorbed: the self-loop is stored and the known node's
\* embedding, not the zero vector, is in place.
C29_Witness ==
    /\ call.op = "UpdateGraphFromTrace"
    /\ call.stage = "absorbed"
    /\ call.trace = <<3, 3, 1>>
    /\ 1 \in DOMAIN call.old_graph
    /\ 3 \notin DOMAIN call.old_graph
    /\ call.graph[3] = <<3, 1>>
    /\ call.old_embeddings[1] = [d \in 1..EmbeddingDim |-> 2]
    /\ call.embeddings[3] = [d \in 1..EmbeddingDim |-> 0 - 2]

\* C30: absorbing the same trace a second time, with no training in
\* between, leaves the node set, every adjacency list with its order and
\* every embedding as the first absorb left them.
C30_AbsorbTwiceIsIdempotent ==
    call.op = "UpdateGraphFromTrace" /\ call.stage = "again" =>
        /\ DOMAIN call.graph = DOMAIN call.first_graph
        /\ \A n \in DOMAIN call.graph : call.graph[n] = call.first_graph[n]
        /\ call.embeddings = call.first_embeddings

\* The trace 2, 1, 3 has been absorbed twice into a graph that held the
\* edge 2 -> 1: node 1 has the one neighbour 3 and node 3 an embedding.
C30_Witness ==
    /\ call.op = "UpdateGraphFromTrace"
    /\ call.stage = "again"
    /\ call.trace = <<2, 1, 3>>
    /\ 2 \in DOMAIN call.old_graph
    /\ call.old_graph[2] = <<1>>
    /\ call.graph[2] = <<1>>
    /\ call.graph[1] = <<3>>
    /\ 3 \notin DOMAIN call.old_embeddings
    /\ call.embeddings[3] = [d \in 1..EmbeddingDim |-> 2]

\* C31: for min <= max the constructed size lies between min and max, and
\* it is max whenever min + step * i, not wrapped, is at least max.
C31_ClampedTargetSize ==
    call.op = "FuzzerThread" /\ call.stage = "constructed" =>
        /\ settings.input_size.min <= call.thread_input_size
        /\ call.thread_input_size <= settings.input_size.max
        /\ settings.input_size.min
              + settings.input_size.step * call.thread_id
                 >= settings.input_size.max
           => call.thread_input_size = settings.input_size.max

\* C32: whenever the loop has called the mutator, the exploration speeds
\* had as many components as the longer of the two inputs, which is the
\* thread's size, the size-mismatch error has not been raised, and in every
\* state every speed lies between -1.0 and +1.0.
C32_SpeedsMatchInputSize ==
    call.op = "Run" =>
        /\ call.error # "exploration_speed size does not match input size"
        /\ call.stage \in {"executed", "frozen", "threw"} =>
              /\ call.speeds_at_call = call.max_dim_x
              /\ call.max_dim_x = ThreadInputSize(0)
        /\ \A i \in 1..Len(call.exploration_speed) :
              /\ 0 - One <= call.exploration_speed[i]
              /\ call.exploration_speed[i] <= One

\* A worker of size 2 has called the mutator with two speeds, and after
\* the freeze one speed is -1.0 and the other has grown to 1.0.
C32_Witness ==
    /\ call.op = "Run"
    /\ call.stage = "frozen"
    /\ call.max_dim_x = 2
    /\ ThreadInputSize(0) = 2
    /\ call.speeds_at_call = 2
    /\ call.exploration_speed = <<0 - One, One>>

\* C33: the initialization run is left for the loop only when the store
\* holds at least two executions, and every iteration of the loop that is
\* not stopped goes on to the mutator with a forbidden execution whose
\* trace is not empty and is the trace of an occupied slot: the scan
\* neither fails nor takes anything else.
C33_ForbiddenAlwaysFound ==
    [][\A w \in WorkerIds :
          /\ InitializationRun(w) /\ pc'[w] \in {"Run_Begin", "Run_Latest1"}
             => CountExecutions(history) >= 2
          /\ LoopTop(w)
             => /\ pc'[w] = "Mut_Loss"
                /\ forbidden_execution'[w].trace # << >>
                /\ \E i \in DOMAIN history :
                      history[i].trace = forbidden_execution'[w].trace]_vars

\* The executions in the occupied slots of a ring.
Held(hist) == {hist[i] : i \in {j \in DOMAIN hist : hist[j].trace # << >>}}

\* The last n entries of a sequence, as a set.
LastOf(q, n) == {q[i] : i \in (Len(q) - Min(n, Len(q)) + 1)..Len(q)}

\* C34: a try-insert that returns added has written its execution into the
\* slot at the write index and advanced the index by one modulo the
\* capacity; after k such inserts into a store that started empty the
\* index is k mod capacity and the ring holds the min(k, capacity)
\* executions added last, and nothing else.
C34_RingIsFifo ==
    call.op = "AddExecutionIfDifferent" =>
        /\ call.result = "added" =>
              /\ call.store.history[call.before.history_index]
                    = call.execution
              /\ call.store.history_index
                    = (call.before.history_index + 1) % Capacity
        /\ call.store.history_index = Len(call.added) % Capacity
        /\ Held(call.store.history) = LastOf(call.added, Capacity)
        /\ CountExecutions(call.store.history)
              = Min(Len(call.added), Capacity)

\* C37: a try-insert that returns not added, its trace being that of an
\* occupied slot, leaves the ring, the write index, the adjacency map, the
\* embeddings and the checkpoint file as they were before the call.
C37_RejectedInsertChangesNothing ==
    call.op = "AddExecutionIfDifferent" /\ call.result = "not_added" =>
        /\ call.store.history = call.before.history
        /\ call.store.history_index = call.before.history_index
        /\ call.store.graph = call.before.graph
        /\ call.store.embeddings = call.before.embeddings
        /\ call.store.checkpoint = call.before.checkpoint

\* The trace 1 2 has been offered again to a ring of two slots that holds
\* it in the slot the next write would take, and was turned down.
C37_Witness ==
    /\ call.op = "AddExecutionIfDifferent"
    /\ call.result = "not_added"
    /\ Capacity = 2
    /\ call.execution.trace = <<1, 2>>
    /\ call.store.history_index = 0
    /\ call.store.history[0].trace = <<1, 2>>
    /\ call.store.history[1].trace = <<3>>
    /\ call.store.checkpoint = "written"

\* The weight the specification gives the step to v from a node reached
\* from prev.
StatedWeight(g, inv_p, inv_q, prev, v) ==
    IF v = prev THEN inv_p
    ELSE IF \E k \in 1..Len(g[prev]) : g[prev][k] = v THEN WeightOne
    ELSE inv_q

\* C35: the weights of a step are 1/p for the previous node, 1 for another
\* out-neighbour of the previous node and 1/q otherwise, the second node is
\* any neighbour of the start node, and in the graph 1 -> 2, 2 -> 1, 2 -> 3
\* the step from 2 reached from 1 never goes back to 1 when 1/p is 0 and
\* 1/q is not, and never on to 3 when 1/q is 0 and 1/p is not.
C35_BiasedStepWeights ==
    call.op = "GenerateBiasedRandomWalk" /\ Len(call.walk) >= 3 =>
        LET n == Len(call.walk)
            prev == call.walk[n - 2]
            c == call.walk[n - 1]
            v == call.walk[n]
            g == call.graph_before
        IN /\ call.weights =
                 [j \in 1..Len(g[c]) |->
                     StatedWeight(g, call.inv_p, call.inv_q, prev, g[c][j])]
           /\ g = (1 :> <<2>> @@ 2 :> <<1, 3>> @@ 3 :> << >>)
                 /\ prev = 1 /\ c = 2
              => /\ call.inv_p = 0 /\ call.inv_q > 0 => v # 1
                 /\ call.inv_q = 0 /\ call.inv_p > 0 => v # 3

\* C36: a walk returned to the training starts at its start node, follows
\* edges of the graph, has at most walk_length nodes for any walk_length
\* from 0 up, is shorter only when its last node has no out-neighbour, and
\* has left the graph as it was.
C36_WalkIsPath ==
    call.op = "GenerateBiasedRandomWalk" /\ call.stage = "returned" =>
        /\ call.walk # << >> => call.walk[1] = call.start_node
        /\ \A k \in 1..(Len(call.walk) - 1) :
              Contains(call.graph_before[call.walk[k]], call.walk[k + 1])
        /\ Len(call.walk) <= call.walk_length
        /\ Len(call.walk) < call.walk_length =>
              /\ call.walk # << >>
              /\ call.graph_before[call.walk[Len(call.walk)]] = << >>
        /\ call.graph = call.graph_before

\* The threads of the lock protocol.
LockThreads == WorkerIds \cup {TuiThread}

\* The holder of the mutex a thread waits for, NoThread when it waits for
\* none or the mutex is free.
WaitsFor(t) ==
    IF t = TuiThread
    THEN IF (tui_pc = "T_Loop" /\ ~g_should_stop_fuzzing)
            \/ tui_pc = "T_Count"
         THEN knowledge_mutex ELSE NoThread
    ELSE IF pc[t] \in {"IR_Loop", "LK_CrashK", "LK_Add"}
            \/ (pc[t] = "LK_Top" /\ ~g_should_stop_fuzzing)
         THEN knowledge_mutex
         ELSE IF pc[t] \in {"LK_Graph", "LK_CrashOther", "LK_AddAbsorb"}
         THEN graph_mutex
         ELSE IF pc[t] = "LK_CrashThis" THEN call.copy_mutex[t]
         ELSE NoThread

\* A set of threads each of which waits for a mutex another of them holds.
Deadlocked ==
    \E S \in SUBSET LockThreads :
        S # {} /\ \A t \in S : WaitsFor(t) \in S

\* A thread that waits for knowledge_mutex holds no graph_mutex.
StoreBeforeEngine ==
    \A t \in LockThreads :
        WaitsFor(t) # NoThread
            /\ (IF t = TuiThread THEN TRUE
                ELSE pc[t] \in {"IR_Loop", "LK_Top", "LK_CrashK", "LK_Add"})
        => /\ graph_mutex # t
           /\ \A w \in WorkerIds : call.copy_mutex[w] # t

\* C38: the workers and the dashboard thread never deadlock over
\* knowledge_mutex and the graph_mutexes: no set of threads waits in a
\* circle, no thread waits for knowledge_mutex while it holds a
\* graph_mutex, and a thread that holds knowledge_mutex and needs a
\* graph_mutex (the absorb of try-insert, the two locks of the crash path's
\* graph copy) obtains it eventually.
C38_NoLockDeadlock ==
    /\ [](call.op = "Locks" => ~Deadlocked /\ StoreBeforeEngine)
    /\ \A w \in WorkerIds :
          /\ (pc[w] = "LK_AddAbsorb") ~> (pc[w] = "LK_AddAbsorbed")
          /\ (pc[w] = "LK_CrashThis") ~> (pc[w] = "LK_CrashCopy")

\* A worker inside try-insert waits for the graph_mutex another worker
\* holds in its mutator; the crash path has held all three locks.
C38_Witness ==
    \E w \in WorkerIds, v \in WorkerIds :
        /\ call.op = "Locks"
        /\ pc[w] = "LK_AddAbsorb" /\ knowledge_mutex = w
        /\ graph_mutex = v /\ pc[v] = "LK_GraphHeld"
        /\ tui_pc = "T_Count"

\* C39: the mutator changes no byte on which the forbidden and the current
\* input agree (a missing byte reads as 0): at such a position dL/dx is 0
\* and the byte returned is the current input's, whatever the speed and
\* the traces; with equal inputs the current input is returned as it is.
C39_AgreedBytesUnchanged ==
    call.op = "ComputeBehavioralGradient" /\ call.stage = "returned"
        /\ call.exploration_speed # << >> =>
        LET x_f == call.forbidden_execution.input
            x_c == call.current_execution.input
        IN /\ \A j \in 1..Len(call.x_new) :
                 ByteAt(x_f, j) = ByteAt(x_c, j) =>
                    /\ call.dL_dx[j].num = 0
                    /\ call.x_new[j] = ByteAt(x_c, j)
           /\ x_f = x_c => call.x_new = x_c

\* The inputs agree on the first byte only, the loss gradient and the
\* distances are not zero, the speeds are positive and the other byte
\* has moved.
C39_Witness ==
    /\ call.op = "ComputeBehavioralGradient"
    /\ call.stage = "returned"
    /\ call.exploration_speed = <<SpeedScale, SpeedScale>>
    /\ call.forbidden_execution.input = <<1, 0>>
    /\ call.current_execution.input = <<1, 1>>
    /\ \E i \in 1..Len(call.dy) : call.dL_dy[i] > 0 /\ call.dy[i] > 0
    /\ call.dL_dx[2].num # 0
    /\ call.x_new[1] = 1
    /\ call.x_new[2] # 1

\* C40: every crash keeps its own artifact: the artifact written for a
\* crash is in some file ever after, whatever crashes follow (also of the
\* same worker with the same signal in the same second), and the number of
\* crash files that hold an artifact is the crash counter.
C40_OneArtifactPerCrash ==
    call.op = "SerializeCrash" =>
        /\ \A crash \in call.written :
              \E name \in DOMAIN call.files :
                 call.files[name] = [crash |-> crash, whole |-> TRUE]
        /\ Cardinality({name \in DOMAIN call.files :
                           call.files[name].whole}) = g_crash_count

====
